---- MODULE Spec2Model ----
(***************************************************************************)
(* A model of the agentic-hackathon repository:                            *)
(*   - the four-stage ranking workflow (src/src/agents/langgraph_workflow) *)
(*   - the /ingest endpoint (src/backend/main.py)                          *)
(*   - the Synthesis Architect watcher (src/backend/synthesis_architect)   *)
(*   - the auto-sync monitor (src/demo/auto_sync_lms.py)                   *)
(* Python dicts are functions from keys to values, Python strings that are *)
(* searched or lower-cased are sequences of one-character strings, and     *)
(* priority scores are kept in hundredths so that the float arithmetic of  *)
(* the code (67.0 and 70.0 exactly) is integer arithmetic here.            *)
(***************************************************************************)
EXTENDS Integers, Sequences, FiniteSets, TLC

VARIABLES
    \* ---- ranking workflow
    wf_pc,          \* node the graph runs next: idle, a stage, END or raised
    api_key,        \* whether FIREWORKS_API_KEY is set in the environment
    state,          \* the ProjectRankingState dict handed from node to node
    trace,          \* the stages that have run, in the order they ran
    llm_calls,      \* the chat-model invocations: <<stage, outcome>>
    \* ---- document database AcademicPlanner
    Raw_Artifacts,      \* documents of the collection, in insertion order
    Knowledge_Graph,    \* documents of the collection, in insertion order
    Agent_State,        \* documents of the collection, in insertion order
    Project_Proposals,  \* documents of the collection, in insertion order
    next_oid,       \* the next ObjectId the driver generates
    responses,      \* the HTTP responses of /ingest, in request order
    \* ---- Synthesis Architect
    sa_pc,          \* position of main() in its watcher loop
    stream,         \* change events of Knowledge_Graph not yet delivered
    sa_received,    \* the insert events the for loop has taken, in order
    sa_finished,    \* number of loop bodies that ran to their end
    recent_concepts,\* local of the loop body: result of get_recent_concepts
    proposal,       \* local of the loop body: result of generate_proposal
    client_open,    \* whether db_client is open
    agent_log,      \* the last line the architect's logger wrote
    \* ---- auto-sync monitor
    mon_pc,         \* position of watch_and_sync
    file,           \* top_3_projects.json: Absent, Unreadable or a content
    lms_up,         \* whether the LMS answers the login with 'Logged In'
    current_hash,   \* local of watch_and_sync
    last_hash,      \* AutoSyncMonitor.last_hash
    last_attempt,   \* the latest sync_top_projects call: [phase, hash, read, ok]
    synced,         \* the file contents a sync that returned True has read
    last_synced,    \* the content read by the latest sync that returned True
    failed_for,     \* <<phase, hash>> of the syncs that returned False for the
                    \* content the file has had since it last changed
    retried,        \* phases of the failed syncs that were followed by another
                    \* attempt for the same unchanged content
    titles_sent,    \* the titles of the LMS Course requests the monitor's
                    \* integration has issued
    title_repeated, \* whether it has issued two of them with the same title
    syncs_of_content, \* successful syncs since the file last changed, up to 2
    \* ---- one FrappeLMSIntegration object and its caller
    lms_pc,         \* position inside the method running, or idle
    lms_op,         \* the method the caller invoked
    lms_arg,        \* its argument: a project dict or the JSON file
    logged_in,      \* FrappeLMSIntegration.logged_in
    lms_log,        \* the HTTP exchanges of the call: [req, arg, resp]
    lms_ret,        \* what the call returned to the caller
    lms_frame,      \* locals of the methods running
    lms_calls,      \* number of calls made on the object
    \* ---- seed_demo_data
    seed_pc,        \* position of seed_demo_data
    seed_idx,       \* index of the concept the loop is at
    seed_trail,     \* per concept handled: [name, kind, embedding, inserted]
    seeded,         \* the _ids of the documents it put into Knowledge_Graph
    \* ---- make_decision called on its own
    md_args,        \* the arguments of the latest call
    md_result,      \* what it returned
    md_logged,      \* the risks it logged
    \* ---- run_workflow.main
    main_pc,        \* position of main: start, build, invoked or returned
    main_ret        \* what main returned

wf_vars  == <<wf_pc, api_key, state, trace, llm_calls>>
db_vars  == <<Raw_Artifacts, Knowledge_Graph, Agent_State, Project_Proposals, next_oid>>
sa_vars  == <<sa_pc, stream, sa_received, sa_finished, recent_concepts, proposal, client_open,
              agent_log>>
mon_vars == <<mon_pc, file, lms_up, current_hash, last_hash, last_attempt, synced,
             last_synced, failed_for, retried, titles_sent, title_repeated,
             syncs_of_content>>
lms_vars == <<lms_pc, lms_op, lms_arg, logged_in, lms_log, lms_ret, lms_frame, lms_calls>>
seed_vars == <<seed_pc, seed_idx, seed_trail, seeded>>
md_vars  == <<md_args, md_result, md_logged>>
main_vars == <<main_pc, main_ret>>
vars     == <<wf_vars, db_vars, responses, sa_vars, mon_vars, lms_vars, seed_vars, md_vars,
             main_vars>>

(***************************************************************************)
(* Bounds of the model.                                                    *)
(***************************************************************************)
MaxProjects == 4
MaxRequests == 3
MaxConcepts == 2
MaxCalls == 2
MaxScore == 10000

(***************************************************************************)
(* Python values.                                                          *)
(***************************************************************************)
EmptyDict == << >>
None == "None"

\* None where a dict may stand
NoneDict == [py_none |-> TRUE]

\* bool(d) of a dict or None
TruthyOrNone(d) == d # NoneDict /\ DOMAIN d # {}

Get(d, k, default) == IF k \in DOMAIN d THEN d[k] ELSE default

\* bool(d) of a dict
Truthy(d) == DOMAIN d # {}

\* str.lower() on the modelled alphabet
LowerChar(c) == CASE c = "A" -> "a" [] c = "B" -> "b" [] c = "C" -> "c" [] OTHER -> c

Lower(s) == [i \in DOMAIN s |-> LowerChar(s[i])]

\* x in y, for strings
IsSubstr(x, y) == \E i \in 0..(Len(y) - Len(x)) : SubSeq(y, i + 1, i + Len(x)) = x

Take(s, n) == SubSeq(s, 1, IF Len(s) < n THEN Len(s) ELSE n)

Min(a, b) == IF a < b THEN a ELSE b

(***************************************************************************)
(* Inputs of the workflow: project dicts (one of them lacks a key the      *)
(* coordinator reads) and the answers the chat model can give.             *)
(***************************************************************************)
Proj(n) == [name |-> n, due_date |-> "2026-01-14", complexity |-> "medium"]

ProjectPool ==
    { Proj(<<"a">>), Proj(<<"A", "b">>), Proj(<<"c">>),
      [name |-> <<"b">>, complexity |-> "medium"] }

ProjectLists == UNION { [1..n -> ProjectPool] : n \in 0..MaxProjects }

FocusPool ==
    { << >>,
      << <<"x", "a", "B">> >>,
      << <<"a">>, <<"A", "x">> >>,
      << <<"C", "x">>, <<"x">> >> }

RiskPool == { << <<"a", "b">> >> }

Reasoning(focus, risks) ==
    [ key_insights         |-> << >>,
      prioritization_logic |-> "logic",
      capacity_strategy    |-> "strategy",
      recommended_focus    |-> focus,
      potential_risks      |-> risks ]

\* What chain.invoke (prompt | llm | parser) can do: return a parsed
\* ProjectAnalysisReasoning, or raise in the model call or in the parser.
ChainOutcomes ==
    { [kind |-> "ok", value |-> Reasoning(f, r)] : f \in FocusPool, r \in RiskPool }
    \cup { [kind |-> "llm_error", value |-> "timeout"],
           [kind |-> "parse_error", value |-> "invalid json"] }

\* What llm.invoke can do in the ranker.
InvokeOutcomes == { [kind |-> "ok", value |-> "synthesis"],
                    [kind |-> "llm_error", value |-> "timeout"] }

(***************************************************************************)
(* The ranking workflow: helper functions.                                 *)
(***************************************************************************)
BaseInterest == 75
BaseDifficulty == 60
BaseUrgency == 80
BaseContext == 50
FocusBoost == 20
\* the weights 0.30, 0.35, 0.20 and 0.15, in hundredths
WeightInterest == 30
WeightDifficulty == 35
WeightUrgency == 20
WeightContext == 15
\* the thresholds 70 and 50 of make_decision, in hundredths like the scores
ExecuteAt == 7000
BreakDownAt == 5000
TopN == 3

\* create_deepseek_llm(): a ChatFireworks client, or ValueError without the key
create_deepseek_llm == IF api_key THEN "ChatFireworks" ELSE "ValueError"

query_long_term_memory(project) ==
    [ recent_activities    |-> <<"activity1", "activity2">>,
      related_concepts     |-> <<"concept1", "concept2">>,
      struggle_indicators  |-> << >> ]

\* any(project['name'].lower() in rec.lower() for rec in recommended)
InRecommendedFocus(project, recommended) ==
    \E i \in DOMAIN recommended : IsSubstr(Lower(project["name"]), Lower(recommended[i]))

\* a scorer that adds the boost once per matching entry instead of once
calculate_priority_scores_per_entry(project, signals, context, llm_insights) ==
    LET recommended == IF Truthy(llm_insights) /\ "recommended_focus" \in DOMAIN llm_insights
                       THEN llm_insights["recommended_focus"] ELSE << >>
        matches == Cardinality({ i \in DOMAIN recommended :
                        IsSubstr(Lower(project["name"]), Lower(recommended[i])) })
        base == [ interest   |-> BaseInterest,
                  difficulty |-> BaseDifficulty,
                  urgency    |-> BaseUrgency,
                  context    |-> BaseContext + FocusBoost * matches ]
        final == base.interest * WeightInterest + base.difficulty * WeightDifficulty
                 + base.urgency * WeightUrgency + base.context * WeightContext
    IN  ("final" :> final) @@ base


calculate_priority_scores(project, signals, context, llm_insights) ==
    LET boosted == /\ Truthy(llm_insights)
                   /\ "recommended_focus" \in DOMAIN llm_insights
                   /\ InRecommendedFocus(project, llm_insights["recommended_focus"])
        base == [ interest   |-> BaseInterest,
                  difficulty |-> BaseDifficulty,
                  urgency    |-> BaseUrgency,
                  context    |-> IF boosted THEN BaseContext + FocusBoost ELSE BaseContext ]
        final == base.interest * WeightInterest + base.difficulty * WeightDifficulty
                 + base.urgency * WeightUrgency + base.context * WeightContext
    IN  ("final" :> final) @@ base

\* the risks make_decision logs: those that name the project
RisksLogged(project, llm_insights) ==
    IF Truthy(llm_insights) /\ "potential_risks" \in DOMAIN llm_insights
    THEN { i \in DOMAIN llm_insights["potential_risks"] :
             IsSubstr(Lower(project["name"]), Lower(llm_insights["potential_risks"][i])) }
    ELSE {}

\* a make_decision that defers a project a risk names
make_decision_risk_aware(priority_score, project, llm_insights) ==
    IF RisksLogged(project, llm_insights) # {} THEN "DEFER"
    ELSE IF priority_score >= ExecuteAt THEN "EXECUTE_NOW"
    ELSE IF priority_score >= BreakDownAt THEN "BREAK_DOWN"
    ELSE "DEFER"

\* the risks of llm_insights are only logged
make_decision(priority_score, project, llm_insights) ==
    IF priority_score >= ExecuteAt THEN "EXECUTE_NOW"
    ELSE IF priority_score >= BreakDownAt THEN "BREAK_DOWN"
    ELSE "DEFER"

\* a sort that is not stable: of two equal scores the later entry comes first
SortPos_unstable(s, j) ==
    1 + Cardinality({ i \in 1..Len(s) :
                        \/ s[i]["priority_score"] > s[j]["priority_score"]
                        \/ /\ s[i]["priority_score"] = s[j]["priority_score"]
                           /\ i > j })

\* sorted(..., key=priority_score, reverse=True), as the indices of the
\* list in their sorted order; Python's sort is stable
SortPos(s, j) ==
    1 + Cardinality({ i \in 1..Len(s) :
                        \/ s[i]["priority_score"] > s[j]["priority_score"]
                        \/ /\ s[i]["priority_score"] = s[j]["priority_score"]
                           /\ i < j })

\* a ranker that forgets to sort
SortedIdx_unsorted(s) == [ i \in 1..Len(s) |-> i ]


SortedIdx(s) == [ p \in 1..Len(s) |-> CHOOSE j \in 1..Len(s) : SortPos(s, j) = p ]

\* result['rank'] = i
WithRank(entry, i) == ("rank" :> i) @@ entry

(***************************************************************************)
(* The graph: entry point, edges, and the channel update of the framework  *)
(* (analyzed_projects is Annotated with operator.add, the rest is last     *)
(* value wins).                                                            *)
(***************************************************************************)
Stages == <<"coordinator", "analyzer", "ranker", "saver">>

EntryPoint == "coordinator"

\* a graph whose analyzer is wired to the saver, bypassing the ranker
Edge_skip_ranker(node) ==
    CASE node = "coordinator" -> "analyzer"
      [] node = "analyzer"    -> "saver"
      [] node = "ranker"      -> "saver"
      [] node = "saver"       -> "END"


Edge(node) ==
    CASE node = "coordinator" -> "analyzer"
      [] node = "analyzer"    -> "ranker"
      [] node = "ranker"      -> "saver"
      [] node = "saver"       -> "END"

\* channels that all take the last value written, analyzed_projects included
Reduce_overwrite(old, update) ==
    [ k \in DOMAIN old \cup DOMAIN update |->
        IF k \notin DOMAIN update THEN old[k] ELSE update[k] ]


Reduce(old, update) ==
    [ k \in DOMAIN old \cup DOMAIN update |->
        IF k \notin DOMAIN update THEN old[k]
        ELSE IF k = "analyzed_projects" /\ k \in DOMAIN old THEN old[k] \o update[k]
        ELSE update[k] ]

HasKeys(project) == {"name", "due_date", "complexity"} \subseteq DOMAIN project

WellFormed(projects) == \A i \in DOMAIN projects : HasKeys(projects[i])

\* a node that raises ends the run: app.invoke propagates the exception
Raise(stage) ==
    /\ wf_pc' = "raised"
    /\ trace' = Append(trace, stage)
    /\ UNCHANGED <<api_key, state, llm_calls>>

Return(stage, update) ==
    /\ wf_pc' = Edge(stage)
    /\ trace' = Append(trace, stage)
    /\ state' = Reduce(state, update)
    /\ UNCHANGED api_key

UNCHANGED_others_wf == UNCHANGED <<db_vars, responses, sa_vars, mon_vars, lms_vars, seed_vars, md_vars, main_vars>>

(***************************************************************************)
(* app.invoke(initial_state): the caller supplies the projects, the        *)
(* environment supplies (or lacks) the API key.                            *)
(***************************************************************************)
Invoke ==
    /\ wf_pc = "idle"
    /\ \E key \in BOOLEAN, ps \in ProjectLists :
        /\ api_key' = key
        /\ state' = [ projects          |-> ps,
                      sprint_context    |-> EmptyDict,
                      analyzed_projects |-> << >>,
                      ranked_results    |-> << >>,
                      metadata          |-> EmptyDict ]
    /\ wf_pc' = EntryPoint
    /\ UNCHANGED <<trace, llm_calls>>
    /\ UNCHANGED_others_wf

\* a coordinator that catches nothing: a failing chain.invoke propagates
CoordinatorTry_nocatch(out) ==
    IF out.kind = "ok"
    THEN [raised |-> FALSE, value |-> out.value]
    ELSE [raised |-> TRUE, value |-> [error |-> out.value]]

\* the try/except around chain.invoke: what llm_reasoning becomes
CoordinatorTry(out) ==
    IF out.kind = "ok"
    THEN [raised |-> FALSE, value |-> out.value]
    ELSE [raised |-> FALSE, value |-> [error |-> out.value]]

project_manager_agent ==
    /\ wf_pc = "coordinator"
    /\ IF ~WellFormed(state["projects"]) \/ create_deepseek_llm = "ValueError"
       THEN Raise("coordinator")
       ELSE \E out \in ChainOutcomes :
            LET r == CoordinatorTry(out)
            IN  /\ llm_calls' = Append(llm_calls, <<"coordinator", out.kind>>)
                /\ IF r.raised
                   THEN /\ wf_pc' = "raised"
                        /\ trace' = Append(trace, "coordinator")
                        /\ UNCHANGED <<api_key, state>>
                   ELSE Return("coordinator",
                          [ sprint_context |-> [ weekly_capacity |-> 20,
                                                 allocated_hours |-> 16,
                                                 active_tasks    |-> 2 ],
                            llm_reasoning  |-> r.value,
                            metadata       |-> [ deepseek_model |->
                                "accounts/fireworks/models/deepseek-v3p2" ] ]
                          @@ state)
    /\ UNCHANGED_others_wf

AnalyzeOne(project, st) ==
    LET llm_insights == Get(st, "llm_reasoning", EmptyDict)
        scores == calculate_priority_scores(project, query_long_term_memory(project),
                                            st["sprint_context"], llm_insights)
    IN  [ project        |-> project,
          scores         |-> scores,
          priority_score |-> scores["final"],
          decision       |-> make_decision(scores["final"], project, llm_insights) ]

project_analyzer_agent ==
    /\ wf_pc = "analyzer"
    /\ Return("analyzer",
              [ analyzed_projects |->
                  [ i \in 1..Len(state["projects"]) |-> AnalyzeOne(state["projects"][i], state) ] ])
    /\ UNCHANGED llm_calls
    /\ UNCHANGED_others_wf

\* the try/except around llm.invoke in the ranker
RankerTry(out) == [raised |-> FALSE]

\* sorted(...)[:3] with the ranks written into the entries
Ranked(analyzed) ==
    LET top == Take(SortedIdx(analyzed), TopN)
    IN  [ i \in 1..Len(top) |-> WithRank(analyzed[top[i]], i) ]

\* the entries ranked are the dicts of analyzed_projects themselves
RankedInPlace(analyzed) ==
    LET top == Take(SortedIdx(analyzed), TopN)
    IN  [ j \in 1..Len(analyzed) |->
            IF \E i \in 1..Len(top) : top[i] = j
            THEN WithRank(analyzed[j], CHOOSE i \in 1..Len(top) : top[i] = j)
            ELSE analyzed[j] ]

\* a ranker that invokes the model a second time when the first call fails
ranking_agent_retry ==
    /\ wf_pc = "ranker"
    /\ \E out \in InvokeOutcomes :
        /\ llm_calls' = IF out.kind = "ok"
                        THEN Append(llm_calls, <<"ranker", out.kind>>)
                        ELSE llm_calls \o << <<"ranker", out.kind>>, <<"ranker", "ok">> >>
        /\ wf_pc' = Edge("ranker")
        /\ trace' = Append(trace, "ranker")
        /\ state' = Reduce(state, [ranked_results |-> Ranked(state["analyzed_projects"])])
        /\ UNCHANGED api_key
    /\ UNCHANGED_others_wf


ranking_agent ==
    /\ wf_pc = "ranker"
    /\ IF create_deepseek_llm = "ValueError"
       THEN Raise("ranker")
       ELSE \E out \in InvokeOutcomes :
            /\ llm_calls' = Append(llm_calls, <<"ranker", out.kind>>)
            /\ IF RankerTry(out).raised
               THEN /\ wf_pc' = "raised"
                    /\ trace' = Append(trace, "ranker")
                    /\ UNCHANGED <<api_key, state>>
               ELSE /\ wf_pc' = Edge("ranker")
                    /\ trace' = Append(trace, "ranker")
                    /\ state' = [ Reduce(state,
                                    [ranked_results |-> Ranked(state["analyzed_projects"])])
                                  EXCEPT !["analyzed_projects"] =
                                    RankedInPlace(state["analyzed_projects"]) ]
                    /\ UNCHANGED api_key
    /\ UNCHANGED_others_wf

\* save_to_database is a stub; the node returns the whole state
persistence_agent ==
    /\ wf_pc = "saver"
    /\ Return("saver", state)
    /\ UNCHANGED llm_calls
    /\ UNCHANGED_others_wf

\* the nodes of the compiled graph, run by app.invoke one after the other
WorkflowStep ==
    \/ project_manager_agent
    \/ project_analyzer_agent
    \/ ranking_agent
    \/ persistence_agent

NextWorkflow ==
    \/ Invoke
    \/ WorkflowStep

(***************************************************************************)
(* run_workflow.main: the environment check, then the workflow is built    *)
(* and invoked inside try/except Exception.                                *)
(***************************************************************************)
\* check_environment: the key is set and both packages can be imported
check_environment(key, packages) == key /\ packages

\* a main that hands back whatever state the failed run had reached
main_result_partial(pc, final_state) == final_state

\* what main returns once app.invoke has come back or raised
main_result(pc, final_state) == IF pc = "END" THEN final_state ELSE NoneDict

UNCHANGED_others_main == UNCHANGED <<db_vars, responses, sa_vars, mon_vars, lms_vars,
                                     seed_vars, md_vars>>

\* if not check_environment(): return None
main_check ==
    /\ main_pc = "start"
    /\ \E key \in BOOLEAN, packages \in BOOLEAN :
        /\ api_key' = key
        /\ IF check_environment(key, packages)
           THEN /\ main_pc' = "build"
                /\ UNCHANGED main_ret
           ELSE /\ main_pc' = "returned"
                /\ main_ret' = NoneDict
    /\ UNCHANGED <<wf_pc, state, trace, llm_calls>>
    /\ UNCHANGED_others_main

\* app = create_ranking_workflow(); app.invoke(initial_state)
main_invoke ==
    /\ main_pc = "build"
    /\ wf_pc = "idle"
    /\ \E ps \in ProjectLists :
        state' = [ projects          |-> ps,
                   sprint_context    |-> EmptyDict,
                   analyzed_projects |-> << >>,
                   ranked_results    |-> << >>,
                   metadata          |-> EmptyDict ]
    /\ wf_pc' = EntryPoint
    /\ main_pc' = "invoked"
    /\ UNCHANGED <<api_key, trace, llm_calls, main_ret>>
    /\ UNCHANGED_others_main

\* return final_state, or the except clause: return None
main_return ==
    /\ main_pc = "invoked"
    /\ wf_pc \in {"END", "raised"}
    /\ main_ret' = main_result(wf_pc, state)
    /\ main_pc' = "returned"
    /\ UNCHANGED wf_vars
    /\ UNCHANGED_others_main

NextMain ==
    \/ main_check
    \/ main_invoke
    \/ WorkflowStep
    \/ main_return

(***************************************************************************)
(* make_decision on its own: any score of the 0..100 scale, in hundredths, *)
(* any project that has a name, any llm_insights the coordinator can leave. *)
(***************************************************************************)
ScorePool == { x \in 0..MaxScore : x % 250 = 0 } \cup {4999, 5001, 6999, 7001}

InsightPool ==
    { EmptyDict, [error |-> "timeout"] } \cup
    { Reasoning(focus, risks) : focus \in FocusPool, risks \in RiskPool \cup { << >> } }

call_make_decision ==
    /\ \E score \in ScorePool, project \in { q \in ProjectPool : HasKeys(q) },
          llm_insights \in InsightPool :
        /\ md_args' = [priority_score |-> score, project |-> project,
                       llm_insights |-> llm_insights]
        /\ md_result' = make_decision(score, project, llm_insights)
        /\ md_logged' = RisksLogged(project, llm_insights)
    /\ UNCHANGED <<wf_vars, db_vars, responses, sa_vars, mon_vars, lms_vars, seed_vars, main_vars>>

NextDecision == call_make_decision

(***************************************************************************)
(* The analyzer node on its own: the graph hands it any state whose        *)
(* projects the coordinator lets through, with or without entries already  *)
(* in analyzed_projects, and merges what it returns into the channels.     *)
(***************************************************************************)
\* an entry an earlier pass left in analyzed_projects
PriorEntries ==
    { << >>,
      << AnalyzeOne(Proj(<<"z">>), [sprint_context |-> EmptyDict]) >> }

analyzer_input ==
    /\ wf_pc = "idle"
    /\ \E ps \in { q \in ProjectLists : WellFormed(q) },
          llm_insights \in InsightPool, prior \in PriorEntries :
        state' = [ projects          |-> ps,
                   sprint_context    |-> EmptyDict,
                   analyzed_projects |-> prior,
                   ranked_results    |-> << >>,
                   metadata          |-> EmptyDict,
                   llm_reasoning     |-> llm_insights ]
    /\ wf_pc' = "analyzer"
    /\ UNCHANGED <<api_key, trace, llm_calls>>
    /\ UNCHANGED_others_wf

NextAnalyzer ==
    \/ analyzer_input
    \/ project_analyzer_agent

(***************************************************************************)
(* The document database.  insert_one gives a document without _id a fresh *)
(* ObjectId, refuses an _id the collection already holds                   *)
(* (DuplicateKeyError) and raises when the server cannot be reached.       *)
(***************************************************************************)
ObjectId(n) == <<"ObjectId", n>>

\* str(result.inserted_id)
Str(id) == <<"str", id[2]>>

HasId(coll, id) == \E i \in DOMAIN coll : coll[i]["_id"] = id

insert_one(coll, doc, reachable) ==
    LET id == IF "_id" \in DOMAIN doc THEN doc["_id"] ELSE ObjectId(next_oid)
    IN  IF ~reachable \/ HasId(coll, id)
        THEN [raised |-> TRUE, coll |-> coll, inserted_id |-> id]
        ELSE [raised |-> FALSE, coll |-> Append(coll, ("_id" :> id) @@ doc),
              inserted_id |-> id]

\* the driver draws the ObjectId before it talks to the server
OidAfter(doc) == IF "_id" \in DOMAIN doc THEN next_oid ELSE next_oid + 1

(***************************************************************************)
(* POST /ingest.  The framework hands the handler a body that is a JSON    *)
(* object (data: dict) and answers 422 to any other body; an exception in  *)
(* the handler is answered 500.                                            *)
(***************************************************************************)
JsonObjects ==
    { [title |-> "notes"],
      [title |-> "syllabus", source |-> "Canvas"],
      [_id |-> <<"json", 7>>, title |-> "notes"],
      EmptyDict }

RequestBodies == [kind : {"object"}, value : JsonObjects]
                 \cup { [kind |-> "array", value |-> <<"notes">>] }

\* a handler that answers success whether or not the insert went through
ingest_data_swallow ==
    /\ Len(responses) < MaxRequests
    /\ \E body \in RequestBodies, reachable \in BOOLEAN :
        IF body.kind # "object"
        THEN /\ responses' = Append(responses, [body |-> body, code |-> 422])
             /\ UNCHANGED db_vars
        ELSE LET result == insert_one(Raw_Artifacts, body.value, reachable)
             IN  /\ Raw_Artifacts' = result.coll
                 /\ next_oid' = OidAfter(body.value)
                 /\ responses' = Append(responses,
                       [body |-> body, code |-> 200, status |-> "success",
                        id |-> Str(result.inserted_id)])
                 /\ UNCHANGED <<Knowledge_Graph, Agent_State, Project_Proposals>>
    /\ UNCHANGED <<wf_vars, sa_vars, mon_vars, lms_vars, seed_vars, md_vars, main_vars>>


ingest_data ==
    /\ Len(responses) < MaxRequests
    /\ \E body \in RequestBodies, reachable \in BOOLEAN :
        IF body.kind # "object"
        THEN /\ responses' = Append(responses, [body |-> body, code |-> 422])
             /\ UNCHANGED db_vars
        ELSE LET result == insert_one(Raw_Artifacts, body.value, reachable)
             IN  /\ Raw_Artifacts' = result.coll
                 /\ next_oid' = OidAfter(body.value)
                 /\ responses' = Append(responses,
                       IF result.raised
                       THEN [body |-> body, code |-> 500]
                       ELSE [body |-> body, code |-> 200, status |-> "success",
                             id |-> Str(result.inserted_id)])
                 /\ UNCHANGED <<Knowledge_Graph, Agent_State, Project_Proposals>>
    /\ UNCHANGED <<wf_vars, sa_vars, mon_vars, lms_vars, seed_vars, md_vars, main_vars>>

NextIngest == ingest_data

(***************************************************************************)
(* The Synthesis Architect.  Concepts reach Knowledge_Graph from outside   *)
(* (the seeding script); the change stream opened by watch() delivers one  *)
(* event per insert made while it is open, in insertion order.  Every      *)
(* helper catches Exception itself, so a database error inside one is      *)
(* logged and the loop body goes on.                                       *)
(***************************************************************************)
RecentLimit == 5

ConceptPool == { [name |-> "Calculus", description |-> "limits"] }

\* what the Gemini call and json.loads can give generate_proposal: the
\* object a response text parses to, None for the response text `null`, or
\* an exception of the call or of json.loads
GeminiOutcomes ==
    { [kind |-> "ok", value |-> [title |-> "Unified Project", rationale |-> "bridge",
                                 difficulty |-> "Hard", first_step |-> "code"]],
      [kind |-> "ok", value |-> NoneDict],
      [kind |-> "error", value |-> "quota"] }

FallbackProposal ==
    [ title      |-> "Fallback Project: Interdisciplinary Exploration",
      rationale  |-> "Unable to access reasoning engine",
      difficulty |-> "Medium",
      first_step |-> "Review the most recent concepts manually." ]

Reverse(q) == [ i \in 1..Len(q) |-> q[Len(q) + 1 - i] ]

\* find().sort("_id", -1).limit(limit), or [] on any error
get_recent_concepts(reachable, limit) ==
    IF reachable THEN Take(Reverse(Knowledge_Graph), limit) ELSE << >>

\* log_agent_state: the collection after the call
log_agent_state(message, reachable) ==
    insert_one(Agent_State, [message |-> message, agent |-> "Synthesis_Architect"],
               reachable).coll

generate_proposal(concepts, out) ==
    IF concepts = << >> THEN NoneDict
    ELSE IF out.kind = "ok" THEN out.value
    ELSE FallbackProposal

\* save_proposal: the collection after the call
save_proposal(p, reachable) == insert_one(Project_Proposals, p, reachable).coll

\* the line log_agent_state leaves last in the log
StateLogLine(reachable) == IF reachable THEN "agent_state" ELSE "error_log"

\* the error lines of the four helpers' except clauses
HelperErrors == {"error_fetch", "error_log", "error_generate", "error_save"}

\* helpers without their try/except: the exception leaves the loop through
\* main's handlers
AfterHelper_unguarded(failed, next) == IF failed THEN "stopped" ELSE next

\* where main goes on after a helper call: each helper catches Exception,
\* logs it and returns, so main never sees the failure
AfterHelper(failed, next) == next


SaInLoop == sa_pc \in {"watch", "fetch", "log_detect", "generate", "log_found",
                       "save", "log_none"}

UNCHANGED_others_sa == UNCHANGED <<wf_vars, responses, mon_vars, lms_vars, seed_vars, md_vars, main_vars, Raw_Artifacts>>

\* an insert into Knowledge_Graph by another process
InsertConcept ==
    /\ Len(Knowledge_Graph) < MaxConcepts
    /\ \E c \in ConceptPool :
        LET result == insert_one(Knowledge_Graph, c, TRUE)
        IN  /\ Knowledge_Graph' = result.coll
            /\ stream' = IF SaInLoop THEN Append(stream, result.inserted_id) ELSE stream
    /\ next_oid' = next_oid + 1
    /\ UNCHANGED <<Agent_State, Project_Proposals, sa_pc, sa_received, sa_finished,
                   recent_concepts, proposal, client_open, agent_log>>
    /\ UNCHANGED_others_sa

\* main() up to the for loop: connect, log, open the change stream
sa_start ==
    /\ sa_pc = "start"
    /\ \E reachable \in BOOLEAN, watch_ok \in BOOLEAN :
        /\ Agent_State' = log_agent_state(<<"Synthesis Architect is online and watching.">>,
                                          reachable)
        /\ sa_pc' = IF watch_ok THEN "watch" ELSE "stopped"
        /\ client_open' = watch_ok
        /\ agent_log' = IF watch_ok THEN StateLogLine(reachable) ELSE "watch_error"
    /\ next_oid' = next_oid + 1
    /\ UNCHANGED <<Knowledge_Graph, Project_Proposals, stream, sa_received, sa_finished,
                   recent_concepts, proposal>>
    /\ UNCHANGED_others_sa

\* a watcher that takes the next event while the previous one is still handled
sa_next_event_concurrent ==
    /\ SaInLoop
    /\ stream # << >>
    /\ sa_received' = Append(sa_received, Head(stream))
    /\ stream' = Tail(stream)
    /\ sa_pc' = "fetch"
    /\ agent_log' = "detected"
    /\ UNCHANGED <<db_vars, sa_finished, recent_concepts, proposal, client_open>>
    /\ UNCHANGED_others_sa

\* for change in stream: the next event
sa_next_event ==
    /\ sa_pc = "watch"
    /\ stream # << >>
    /\ sa_received' = Append(sa_received, Head(stream))
    /\ stream' = Tail(stream)
    /\ sa_pc' = "fetch"
    /\ agent_log' = "detected"
    /\ UNCHANGED <<db_vars, sa_finished, recent_concepts, proposal, client_open>>
    /\ UNCHANGED_others_sa

sa_fetch ==
    /\ sa_pc = "fetch"
    /\ \E reachable \in BOOLEAN :
        /\ recent_concepts' = get_recent_concepts(reachable, RecentLimit)
        /\ agent_log' = IF reachable THEN agent_log ELSE "error_fetch"
        /\ sa_pc' = AfterHelper(~reachable, "log_detect")
    /\ UNCHANGED <<db_vars, stream, sa_received, sa_finished, proposal, client_open>>
    /\ UNCHANGED_others_sa

sa_log_detect ==
    /\ sa_pc = "log_detect"
    /\ \E reachable \in BOOLEAN :
        /\ Agent_State' = log_agent_state(<<"Detected new concept. Analyzing context of last",
                                            Len(recent_concepts)>>, reachable)
        /\ agent_log' = StateLogLine(reachable)
        /\ sa_pc' = AfterHelper(~reachable, "generate")
    /\ next_oid' = next_oid + 1
    /\ UNCHANGED <<Knowledge_Graph, Project_Proposals, stream, sa_received, sa_finished,
                   recent_concepts, proposal, client_open>>
    /\ UNCHANGED_others_sa

sa_generate ==
    /\ sa_pc = "generate"
    /\ \E out \in GeminiOutcomes :
        /\ proposal' = generate_proposal(recent_concepts, out)
        /\ agent_log' = IF recent_concepts = << >> THEN agent_log
                        ELSE IF out.kind = "ok" THEN "gemini_response"
                        ELSE "error_generate"
        /\ sa_pc' = AfterHelper(recent_concepts # << >> /\ out.kind # "ok",
                                IF TruthyOrNone(generate_proposal(recent_concepts, out))
                                THEN "log_found" ELSE "log_none")
    /\ UNCHANGED <<db_vars, stream, sa_received, sa_finished, recent_concepts, client_open>>
    /\ UNCHANGED_others_sa

sa_log_found ==
    /\ sa_pc = "log_found"
    /\ \E reachable \in BOOLEAN :
        /\ Agent_State' = log_agent_state(<<"Found a connection! Proposing a unified project.">>,
                                          reachable)
        /\ agent_log' = StateLogLine(reachable)
        /\ sa_pc' = AfterHelper(~reachable, "save")
    /\ next_oid' = next_oid + 1
    /\ UNCHANGED <<Knowledge_Graph, Project_Proposals, stream, sa_received, sa_finished,
                   recent_concepts, proposal, client_open>>
    /\ UNCHANGED_others_sa

sa_save ==
    /\ sa_pc = "save"
    /\ \E reachable \in BOOLEAN :
        /\ Project_Proposals' = save_proposal(proposal, reachable)
        /\ agent_log' = IF reachable THEN "saved" ELSE "error_save"
        /\ sa_pc' = AfterHelper(~reachable, "watch")
    /\ next_oid' = next_oid + 1
    /\ sa_finished' = sa_finished + 1
    /\ recent_concepts' = << >>
    /\ proposal' = NoneDict
    /\ UNCHANGED <<Knowledge_Graph, Agent_State, stream, sa_received, client_open>>
    /\ UNCHANGED_others_sa

sa_log_none ==
    /\ sa_pc = "log_none"
    /\ \E reachable \in BOOLEAN :
        /\ Agent_State' = log_agent_state(<<"Could not generate a coherent proposal at this time.">>,
                                          reachable)
        /\ agent_log' = StateLogLine(reachable)
        /\ sa_pc' = AfterHelper(~reachable, "watch")
    /\ next_oid' = next_oid + 1
    /\ sa_finished' = sa_finished + 1
    /\ recent_concepts' = << >>
    /\ proposal' = NoneDict
    /\ UNCHANGED <<Knowledge_Graph, Project_Proposals, stream, sa_received, client_open>>
    /\ UNCHANGED_others_sa

\* a watcher that reopens the change stream after an error
sa_stop_reopens ==
    /\ SaInLoop
    /\ sa_pc' = "watch"
    /\ client_open' = TRUE
    /\ agent_log' \in (IF sa_pc = "watch" THEN {"watch_error", "stopping"} ELSE {"stopping"})
    /\ UNCHANGED <<db_vars, stream, sa_received, sa_finished, recent_concepts, proposal>>
    /\ UNCHANGED_others_sa

\* the stream raises PyMongoError while main waits on it, or Ctrl+C at any
\* point of the loop: the except clause logs, then finally closes
sa_stop ==
    /\ SaInLoop
    /\ sa_pc' = "stopped"
    /\ client_open' = FALSE
    /\ agent_log' \in (IF sa_pc = "watch" THEN {"watch_error", "stopping"} ELSE {"stopping"})
    /\ UNCHANGED <<db_vars, stream, sa_received, sa_finished, recent_concepts, proposal>>
    /\ UNCHANGED_others_sa

NextArchitect ==
    \/ InsertConcept
    \/ sa_start
    \/ sa_next_event
    \/ sa_fetch
    \/ sa_log_detect
    \/ sa_generate
    \/ sa_log_found
    \/ sa_save
    \/ sa_log_none
    \/ sa_stop

(***************************************************************************)
(* Seeding (seed_mock_data.py): the collections are cleared, three signals *)
(* are stored, and each of the four concepts is embedded and, if that gave *)
(* an embedding, inserted.  seed_demo_data catches nothing itself: a       *)
(* database error ends it.                                                 *)
(***************************************************************************)
SeedSignals ==
    << [source |-> "University Portal", title |-> "Degree Requirements"],
       [source |-> "Canvas", title |-> "MATH 16A"],
       [source |-> "Email", title |-> "Advisor Meeting Summary"] >>

SeedConcepts ==
    << [name |-> "Calculus", category |-> "Mathematics"],
       [name |-> "Microeconomics", category |-> "Economics"],
       [name |-> "Descriptive Statistics", category |-> "Statistics"],
       [name |-> "Business Principles", category |-> "Business"] >>

\* what client.models.embed_content can give get_embedding: a vector, an
\* answer without values, or an exception
EmbeddingOutcomes ==
    { [kind |-> "ok", values |-> <<"0.12", "0.07">>],
      [kind |-> "ok", values |-> << >>],
      [kind |-> "error", values |-> << >>] }

get_embedding(out) == IF out.kind = "ok" THEN out.values ELSE << >>

\* a loop that inserts the concept whatever get_embedding returned
HasEmbedding_always(embedding) == TRUE

\* if concept['embedding']:
HasEmbedding(embedding) == embedding # << >>

\* insert_many: every document gets an ObjectId of its own
insert_many(coll, docs) ==
    coll \o [ i \in 1..Len(docs) |-> ("_id" :> ObjectId(next_oid + i - 1)) @@ docs[i] ]

\* update_one(filter, {"$set": doc}, upsert=True) on the session field
upsert_session(coll, doc) ==
    IF \E i \in DOMAIN coll : "session" \in DOMAIN coll[i] /\ coll[i]["session"] = doc["session"]
    THEN LET first == CHOOSE i \in DOMAIN coll :
                        /\ "session" \in DOMAIN coll[i] /\ coll[i]["session"] = doc["session"]
                        /\ \A j \in 1..(i - 1) : ~("session" \in DOMAIN coll[j]
                                                   /\ coll[j]["session"] = doc["session"])
         IN  [coll EXCEPT ![first] = doc @@ coll[first]]
    ELSE Append(coll, ("_id" :> ObjectId(next_oid)) @@ doc)

UNCHANGED_others_seed == UNCHANGED <<wf_vars, responses, sa_vars, mon_vars, lms_vars, md_vars, main_vars>>

\* the four delete_many calls
seed_clear ==
    /\ seed_pc = "start"
    /\ \E reachable \in BOOLEAN :
        IF reachable
        THEN /\ Raw_Artifacts' = << >>
             /\ Knowledge_Graph' = << >>
             /\ Project_Proposals' = << >>
             /\ Agent_State' = << >>
             /\ seed_pc' = "signals"
        ELSE /\ seed_pc' = "raised"
             /\ UNCHANGED <<Raw_Artifacts, Knowledge_Graph, Project_Proposals, Agent_State>>
    /\ UNCHANGED <<next_oid, seed_idx, seed_trail, seeded>>
    /\ UNCHANGED_others_seed

\* db.Raw_Artifacts.insert_many(signals)
seed_signals ==
    /\ seed_pc = "signals"
    /\ \E reachable \in BOOLEAN :
        IF reachable
        THEN /\ Raw_Artifacts' = insert_many(Raw_Artifacts, SeedSignals)
             /\ next_oid' = next_oid + Len(SeedSignals)
             /\ seed_pc' = "concepts"
        ELSE /\ seed_pc' = "raised"
             /\ UNCHANGED <<Raw_Artifacts, next_oid>>
    /\ seed_idx' = 1
    /\ UNCHANGED <<Knowledge_Graph, Project_Proposals, Agent_State, seed_trail, seeded>>
    /\ UNCHANGED_others_seed

\* one turn of `for concept in concepts:`
seed_concept ==
    /\ seed_pc = "concepts"
    /\ seed_idx <= Len(SeedConcepts)
    /\ \E out \in EmbeddingOutcomes, reachable \in BOOLEAN :
        LET concept == [embedding |-> get_embedding(out)] @@ SeedConcepts[seed_idx]
            result == insert_one(Knowledge_Graph, concept, reachable)
            entry(inserted) == [ name |-> concept.name, kind |-> out.kind,
                                 embedding |-> concept.embedding, inserted |-> inserted ]
        IN  IF HasEmbedding(concept.embedding)
            THEN /\ next_oid' = next_oid + 1
                 /\ IF result.raised
                    THEN /\ seed_pc' = "raised"
                         /\ UNCHANGED <<Knowledge_Graph, seed_idx, seed_trail, seeded>>
                    ELSE /\ Knowledge_Graph' = result.coll
                         /\ seeded' = seeded \cup {result.inserted_id}
                         /\ seed_trail' = Append(seed_trail, entry(TRUE))
                         /\ seed_idx' = seed_idx + 1
                         /\ UNCHANGED seed_pc
            ELSE /\ seed_trail' = Append(seed_trail, entry(FALSE))
                 /\ seed_idx' = seed_idx + 1
                 /\ UNCHANGED <<Knowledge_Graph, next_oid, seeded, seed_pc>>
    /\ UNCHANGED <<Raw_Artifacts, Project_Proposals, Agent_State>>
    /\ UNCHANGED_others_seed

\* db.Agent_State.update_one(..., upsert=True) after the loop
seed_state ==
    /\ seed_pc = "concepts"
    /\ seed_idx > Len(SeedConcepts)
    /\ \E reachable \in BOOLEAN :
        IF reachable
        THEN /\ Agent_State' = upsert_session(Agent_State,
                                   [session |-> "curriculum_demo",
                                    active_agent |-> "Synthesis Architect"])
             /\ next_oid' = next_oid + 1
             /\ seed_pc' = "done"
        ELSE /\ seed_pc' = "raised"
             /\ UNCHANGED <<Agent_State, next_oid>>
    /\ UNCHANGED <<Raw_Artifacts, Knowledge_Graph, Project_Proposals, seed_idx, seed_trail, seeded>>
    /\ UNCHANGED_others_seed

\* the documents the collections hold from earlier runs
OldData ==
    /\ seed_pc = "start"
    /\ Len(Knowledge_Graph) < MaxConcepts
    /\ \E c \in ConceptPool :
        Knowledge_Graph' = insert_one(Knowledge_Graph, c, TRUE).coll
    /\ next_oid' = next_oid + 1
    /\ UNCHANGED <<Raw_Artifacts, Project_Proposals, Agent_State, seed_pc, seed_idx,
                   seed_trail, seeded>>
    /\ UNCHANGED_others_seed

NextSeed ==
    \/ OldData
    \/ seed_clear
    \/ seed_signals
    \/ seed_concept
    \/ seed_state

(***************************************************************************)
(* The LMS integration: one FrappeLMSIntegration object.  Its caller       *)
(* (test_integration, main, the monitor) invokes login, create_course and  *)
(* sync_top_projects on it, one call after the other; the LMS answers      *)
(* every request as it pleases, or not at all.                             *)
(***************************************************************************)
Absent == "Absent"
\* the file exists but open() raises
Unreadable == "Unreadable"

\* an entry of top_3_projects
LmsProject(r, n) ==
    [ rank |-> r, name |-> n, priority_score |-> 70, complexity |-> "medium",
      due_date |-> "2026-01-14", estimated_hours |-> 8, decision |-> "EXECUTE_NOW" ]

Without(d, k) == [ x \in DOMAIN d \ {k} |-> d[x] ]

TopFile(ts, entries) ==
    [ total_projects_analyzed |-> 3, timestamp |-> ts, model |-> "deepseek",
      top_3_projects |-> entries ]

\* json.load(f) of each file content the model writes
JsonLoad(c) ==
    CASE c = "c1"     -> [ok |-> TRUE, data |-> TopFile("t1", <<LmsProject(1, "X"), LmsProject(2, "Y")>>)]
      [] c = "c2"     -> [ok |-> TRUE, data |-> TopFile("t2", <<LmsProject(1, "X"), LmsProject(2, "Z")>>)]
      [] c = "nokey"  -> [ok |-> TRUE, data |-> Without(TopFile("t1", <<LmsProject(1, "X")>>), "model")]
      [] c = "notop"  -> [ok |-> TRUE, data |-> Without(TopFile("t1", << >>), "top_3_projects")]
      [] c = "norank" -> [ok |-> TRUE, data |-> TopFile("t1", <<LmsProject(1, "X"),
                                                              Without(LmsProject(2, "Y"), "rank")>>)]
      [] c = "nodue"  -> [ok |-> TRUE, data |-> TopFile("t1", <<Without(LmsProject(1, "X"), "due_date"),
                                                              LmsProject(2, "Y")>>)]
      [] OTHER        -> [ok |-> FALSE, data |-> EmptyDict]

\* the files sync_top_projects is pointed at
LmsFiles == {Absent, Unreadable, "bad", "c1", "c2", "nokey", "notop", "norank", "nodue"}

\* the projects create_course is handed by a caller of its own
LmsProjects == { LmsProject(0, "T"), Without(LmsProject(0, "T"), "estimated_hours") }

\* the keys sync_top_projects reads before it logs in
SyncKeys == {"total_projects_analyzed", "timestamp", "model"}

\* the keys of an entry the loop of sync_top_projects prints
EntryKeys == {"rank", "name"}

\* the keys create_course reads while it builds course_data
CourseKeys == {"rank", "name", "estimated_hours", "priority_score", "complexity",
               "due_date", "decision"}

\* f"[Rank {project['rank']}] {project['name']}"
CourseTitle(project) == <<"[Rank ", project["rank"], "] ", project["name"]>>

\* what the LMS can answer: no answer (the request raises), a body that is
\* not JSON, or a JSON object
Raises == [kind |-> "raise", status |-> 0, json |-> EmptyDict]

Text(status) == [kind |-> "text", status |-> status, json |-> EmptyDict]

Json(status, body) == [kind |-> "json", status |-> status, json |-> body]

GetResponses == { Raises, Text(200) }

LoginResponses ==
    { Raises, Text(200), Text(401),
      Json(200, [message |-> "Logged In"]),
      Json(200, [message |-> "Invalid"]),
      Json(401, [message |-> "Logged In"]) }

CourseResponses ==
    { Raises, Text(200), Json(417, EmptyDict),
      Json(200, [data |-> [name |-> "course-1"]]),
      Json(201, [data |-> [name |-> "course-1"]]),
      Json(200, [data |-> EmptyDict]),
      Json(200, [data |-> NoneDict]),
      Json(200, EmptyDict) }

ChapterResponses ==
    { Raises, Text(201), Json(417, EmptyDict),
      Json(200, [data |-> [name |-> "chapter-1"]]),
      Json(200, [data |-> NoneDict]),
      Json(200, [data |-> EmptyDict]) }

LessonResponses == { Raises, Json(417, EmptyDict), Json(200, [data |-> [name |-> "lesson-1"]]) }

Exchange(req, arg, resp) == [req |-> req, arg |-> arg, resp |-> resp]

\* every answered request counts as created
Created_any(resp) == resp.status # 0

\* response.status_code in [200, 201]
Created(resp) == resp.status \in {200, 201}

\* response.json().get('data', {}), when response.json() does not raise
DataOf(resp) == Get(resp.json, "data", EmptyDict)

\* the locals of the methods running, and the projects create_course was
\* called with so far
NoFrame ==
    [ data |-> EmptyDict, idx |-> 0, project |-> EmptyDict, course |-> NoneDict,
      chapter |-> None, created |-> 0, login_ret |-> FALSE, was_logged_in |-> FALSE,
      called |-> << >> ]

UNCHANGED_others_lms == UNCHANGED <<wf_vars, db_vars, responses, sa_vars, mon_vars, seed_vars, md_vars, main_vars>>

\* what the caller gets: a returned value or a propagated exception
Returned(value) == [raised |-> FALSE, value |-> value]

Propagated == [raised |-> TRUE, value |-> None]

\* the call ends and the caller has its outcome
LmsReturn(outcome) ==
    /\ lms_ret' = outcome
    /\ lms_pc' = "idle"

\* the caller invokes a method on the object
lms_call ==
    /\ lms_pc = "idle"
    /\ lms_calls < MaxCalls
    /\ lms_calls' = lms_calls + 1
    /\ \/ /\ lms_op' = "login"
          /\ lms_arg' = None
          /\ lms_pc' = "login_get"
       \/ /\ lms_op' = "create_course"
          /\ \E project \in LmsProjects : lms_arg' = project
          /\ lms_pc' = "course_post"
       \/ /\ lms_op' = "sync_top_projects"
          /\ \E f \in LmsFiles : lms_arg' = f
          /\ lms_pc' = "sync_read"
    /\ lms_log' = << >>
    /\ lms_ret' = Returned(None)
    /\ lms_frame' = [ NoFrame EXCEPT !.project = IF lms_op' = "create_course"
                                                 THEN lms_arg' ELSE EmptyDict,
                                     !.called = IF lms_op' = "create_course"
                                                THEN <<lms_arg'>> ELSE << >>,
                                     !.was_logged_in = logged_in ]
    /\ UNCHANGED logged_in
    /\ UNCHANGED_others_lms

Logged(req, arg, resp) == lms_log' = Append(lms_log, Exchange(req, arg, resp))

\* a login that takes every 200 answer for a successful login
login_response_any200(resp) ==
    /\ resp.kind = "json"
    /\ resp.status = 200

\* login: the value of the if at lines 39-44, for a POST that was answered
\* or not; response.json() of a body that is not JSON raises
login_response(resp) ==
    /\ resp.kind = "json"
    /\ resp.status = 200
    /\ Get(resp.json, "message", None) = "Logged In"

\* login returns to whoever called it: the caller of the object, or
\* sync_top_projects at `if not self.login(): return False`
LoginReturn(ret) ==
    IF lms_op = "login"
    THEN /\ LmsReturn(Returned(ret))
         /\ lms_frame' = [lms_frame EXCEPT !.login_ret = ret]
    ELSE IF ~ret
    THEN /\ LmsReturn(Returned(FALSE))
         /\ lms_frame' = [lms_frame EXCEPT !.login_ret = ret]
    ELSE /\ lms_pc' = "sync_loop"
         /\ lms_frame' = [lms_frame EXCEPT !.login_ret = ret, !.idx = 1]
         /\ UNCHANGED lms_ret

\* response = self.session.get(f"{self.base_url}/")
login_get ==
    /\ lms_pc = "login_get"
    /\ \E resp \in GetResponses :
        /\ Logged("GET", "/", resp)
        /\ IF resp.kind = "raise"
           THEN LoginReturn(FALSE)
           ELSE /\ lms_pc' = "login_post"
                /\ UNCHANGED <<lms_ret, lms_frame>>
    /\ UNCHANGED <<lms_op, lms_arg, logged_in, lms_calls>>
    /\ UNCHANGED_others_lms

\* response = self.session.post(.../api/method/login) and what follows
login_post ==
    /\ lms_pc = "login_post"
    /\ \E resp \in LoginResponses :
        /\ Logged("POST", "login", resp)
        /\ logged_in' = IF login_response(resp) THEN TRUE ELSE logged_in
        /\ LoginReturn(login_response(resp))
    /\ UNCHANGED <<lms_op, lms_arg, lms_calls>>
    /\ UNCHANGED_others_lms

\* a sync_top_projects without its try/except: the exception reaches the caller
sync_except_propagates == Propagated

\* the except clause of sync_top_projects: print, traceback, return False
sync_except == Returned(FALSE)

\* sync_top_projects up to the login: exists(), open(), json.load and the
\* three prints
sync_read ==
    /\ lms_pc = "sync_read"
    /\ IF lms_arg = Absent
       THEN /\ LmsReturn(Returned(FALSE))
            /\ UNCHANGED lms_frame
       ELSE IF lms_arg = Unreadable \/ ~JsonLoad(lms_arg).ok
       THEN /\ LmsReturn(sync_except)
            /\ UNCHANGED lms_frame
       ELSE IF ~(SyncKeys \subseteq DOMAIN JsonLoad(lms_arg).data)
       THEN /\ LmsReturn(sync_except)
            /\ UNCHANGED lms_frame
       ELSE /\ lms_frame' = [lms_frame EXCEPT !.data = JsonLoad(lms_arg).data]
            /\ lms_pc' = "login_get"
            /\ UNCHANGED lms_ret
    /\ UNCHANGED <<lms_op, lms_arg, logged_in, lms_log, lms_calls>>
    /\ UNCHANGED_others_lms

\* a loop whose print reads the entry's keys with a default
EntryPrintable_lenient(entry) == TRUE

\* print(f"... Rank {project['rank']}: {project['name']}") does not raise
EntryPrintable(entry) == EntryKeys \subseteq DOMAIN entry

\* for project in data['top_3_projects']: print(...); self.create_course(project)
sync_loop ==
    /\ lms_pc = "sync_loop"
    /\ LET data == lms_frame.data
       IN  IF "top_3_projects" \notin DOMAIN data
           THEN /\ LmsReturn(sync_except)
                /\ UNCHANGED lms_frame
           ELSE IF lms_frame.idx > Len(data["top_3_projects"])
           THEN /\ LmsReturn(Returned(TRUE))
                /\ UNCHANGED lms_frame
           ELSE IF ~EntryPrintable(data["top_3_projects"][lms_frame.idx])
           THEN /\ LmsReturn(sync_except)
                /\ UNCHANGED lms_frame
           ELSE /\ lms_frame' = [lms_frame EXCEPT
                                   !.project = data["top_3_projects"][lms_frame.idx],
                                   !.course = NoneDict, !.chapter = None,
                                   !.called = Append(@, data["top_3_projects"][lms_frame.idx])]
                /\ lms_pc' = "course_post"
                /\ UNCHANGED lms_ret
    /\ UNCHANGED <<lms_op, lms_arg, logged_in, lms_log, lms_calls>>
    /\ UNCHANGED_others_lms

\* create_course returns to whoever called it: the caller of the object, or
\* the loop of sync_top_projects (`if course: created_courses.append(course)`)
CourseReturn(course) ==
    IF lms_op = "create_course"
    THEN /\ LmsReturn(Returned(course))
         /\ lms_frame' = [lms_frame EXCEPT !.course = course]
    ELSE /\ lms_pc' = "sync_loop"
         /\ lms_frame' = [lms_frame EXCEPT
                            !.course = course,
                            !.idx = @ + 1,
                            !.created = IF TruthyOrNone(course) THEN @ + 1 ELSE @]
         /\ UNCHANGED lms_ret

\* create_course: course_data is built, the LMS Course is POSTed, and the
\* answer decides whether the outline is added; a KeyError while course_data
\* is built, a body that is not JSON and a null 'data' (course.get raises)
\* all end in the except clause
course_post ==
    /\ lms_pc = "course_post"
    /\ LET project == lms_frame.project
       IN  IF ~(CourseKeys \subseteq DOMAIN project)
           THEN /\ CourseReturn(NoneDict)
                /\ UNCHANGED lms_log
           ELSE \E resp \in CourseResponses :
                /\ Logged("course", CourseTitle(project), resp)
                /\ IF resp.kind = "json" /\ Created(resp) /\ DataOf(resp) # NoneDict
                   THEN IF Get(DataOf(resp), "name", None) # None
                        THEN /\ lms_frame' = [lms_frame EXCEPT !.course = DataOf(resp)]
                             /\ lms_pc' = "chapter_post"
                             /\ UNCHANGED lms_ret
                        ELSE CourseReturn(DataOf(resp))
                   ELSE CourseReturn(NoneDict)
    /\ UNCHANGED <<lms_op, lms_arg, logged_in, lms_calls>>
    /\ UNCHANGED_others_lms

\* _add_course_outline: the Course Chapter is POSTed; whatever happens,
\* create_course goes on to `return course`
chapter_post ==
    /\ lms_pc = "chapter_post"
    /\ \E resp \in ChapterResponses :
        /\ Logged("chapter", lms_frame.course["name"], resp)
        /\ IF resp.kind = "json" /\ Created(resp) /\ Get(DataOf(resp), "name", None) # None
           THEN /\ lms_frame' = [lms_frame EXCEPT !.chapter = DataOf(resp)["name"]]
                /\ lms_pc' = "lesson_post"
                /\ UNCHANGED lms_ret
           ELSE CourseReturn(lms_frame.course)
    /\ UNCHANGED <<lms_op, lms_arg, logged_in, lms_calls>>
    /\ UNCHANGED_others_lms

\* _add_lesson: the Course Lesson is POSTed
lesson_post ==
    /\ lms_pc = "lesson_post"
    /\ \E resp \in LessonResponses :
        /\ Logged("lesson", lms_frame.chapter, resp)
        /\ CourseReturn(lms_frame.course)
    /\ UNCHANGED <<lms_op, lms_arg, logged_in, lms_calls>>
    /\ UNCHANGED_others_lms

NextLms ==
    \/ lms_call
    \/ login_get
    \/ login_post
    \/ sync_read
    \/ sync_loop
    \/ course_post
    \/ chapter_post
    \/ lesson_post

(***************************************************************************)
(* The auto-sync monitor.  Another process writes, rewrites or removes     *)
(* top_3_projects.json at any time, and the LMS comes and goes.            *)
(***************************************************************************)
ValidContents == {"c1", "c2"}

\* a content json.load rejects, or that lacks a key the sync reads
Contents == ValidContents \cup {"bad"}

\* hashlib.md5(...).hexdigest()
MD5(c) == CASE c = "c1" -> "9a0364b9" [] c = "c2" -> "1f3870be" [] c = "bad" -> "bae60998"

\* get_file_hash: None when the file is absent or cannot be read
get_file_hash(f) == IF f \in {Absent, Unreadable} THEN None ELSE MD5(f)

\* login(): whether the LMS answers 200 with message 'Logged In'
login(up) == up

\* sync_top_projects: False when the file is missing, unreadable or
\* unparsable or when login fails, True after the course loop otherwise
sync_top_projects(f, up) ==
    IF f = Absent THEN FALSE
    ELSE IF f = Unreadable \/ ~JsonLoad(f).ok THEN FALSE
    ELSE IF ~(SyncKeys \subseteq DOMAIN JsonLoad(f).data) THEN FALSE
    ELSE IF ~login(up) THEN FALSE
    ELSE LET data == JsonLoad(f).data
         IN  /\ "top_3_projects" \in DOMAIN data
             /\ \A i \in DOMAIN data["top_3_projects"] :
                    EntryPrintable(data["top_3_projects"][i])

\* the titles of the LMS Course requests one sync_top_projects call issues, in
\* order: the loop stops at an entry whose rank or name is missing, and
\* create_course sends nothing for an entry it cannot build course_data from
sync_course_titles(f, up) ==
    IF f \in {Absent, Unreadable} \/ ~JsonLoad(f).ok THEN << >>
    ELSE LET data == JsonLoad(f).data
         IN  IF ~(SyncKeys \subseteq DOMAIN data) \/ ~login(up)
                \/ "top_3_projects" \notin DOMAIN data
             THEN << >>
             ELSE LET entries == data["top_3_projects"]
                      reached(i) == \A j \in 1..i : EntryPrintable(entries[j])
                      posted == SelectSeq([i \in 1..Len(entries) |-> i],
                                          LAMBDA n : reached(n) /\ CourseKeys \subseteq DOMAIN entries[n])
                  IN  [ k \in 1..Len(posted) |-> CourseTitle(entries[posted[k]]) ]

UNCHANGED_others_mon == UNCHANGED <<wf_vars, db_vars, responses, sa_vars, lms_vars, seed_vars, md_vars, main_vars>>

\* the bookkeeping of one sync_top_projects call in phase ph
Attempt(ph, ok) ==
    /\ last_attempt' = [phase |-> ph, hash |-> current_hash, read |-> file, ok |-> ok]
    /\ synced' = IF ok THEN synced \cup {file} ELSE synced
    /\ last_synced' = IF ok THEN file ELSE last_synced
    /\ retried' = retried \cup { q \in {"initial", "poll"} : <<q, current_hash>> \in failed_for }
    /\ failed_for' = IF ok
                     THEN { x \in failed_for : x[2] # current_hash }
                     ELSE failed_for \cup { <<ph, current_hash>> }
    /\ LET titles == sync_course_titles(file, lms_up)
       IN  /\ titles_sent' = titles_sent \cup { titles[i] : i \in DOMAIN titles }
           /\ title_repeated' =
                 ( \/ title_repeated
                   \/ \E i \in DOMAIN titles : titles[i] \in titles_sent
                   \/ \E i \in DOMAIN titles :
                         \E j \in DOMAIN titles : i # j /\ titles[i] = titles[j] )
    /\ syncs_of_content' = IF ok /\ syncs_of_content < 2
                           THEN syncs_of_content + 1 ELSE syncs_of_content

WriteFile ==
    /\ \E c \in Contents \cup {Unreadable} :
        /\ c # file
        /\ file' = c
    /\ failed_for' = {}
    /\ UNCHANGED <<mon_pc, lms_up, current_hash, last_hash, last_attempt, synced,
                   last_synced, retried, titles_sent, title_repeated>>
    /\ syncs_of_content' = 0
    /\ UNCHANGED_others_mon

DeleteFile ==
    /\ file # Absent
    /\ file' = Absent
    /\ failed_for' = {}
    /\ UNCHANGED <<mon_pc, lms_up, current_hash, last_hash, last_attempt, synced,
                   last_synced, retried, titles_sent, title_repeated>>
    /\ syncs_of_content' = 0
    /\ UNCHANGED_others_mon

LmsChange ==
    /\ lms_up' = ~lms_up
    /\ UNCHANGED <<mon_pc, file, current_hash, last_hash, last_attempt, synced,
                   last_synced, failed_for, retried, titles_sent, title_repeated,
                   syncs_of_content>>
    /\ UNCHANGED_others_mon

\* watch_and_sync: current_hash = self.get_file_hash(); if current_hash:
mon_initial_hash ==
    /\ mon_pc = "start"
    /\ current_hash' = get_file_hash(file)
    /\ mon_pc' = IF get_file_hash(file) # None THEN "initial_sync" ELSE "sleep"
    /\ UNCHANGED <<file, lms_up, last_hash, last_attempt, synced, last_synced,
                   failed_for, retried, titles_sent, title_repeated,
                   syncs_of_content>>
    /\ UNCHANGED_others_mon

\* the initial sync: the result of sync_top_projects is not looked at
mon_initial_sync ==
    /\ mon_pc = "initial_sync"
    /\ Attempt("initial", sync_top_projects(file, lms_up))
    /\ last_hash' = current_hash
    /\ mon_pc' = "sleep"
    /\ UNCHANGED <<file, lms_up, current_hash>>
    /\ UNCHANGED_others_mon

\* time.sleep(check_interval); current_hash = self.get_file_hash()
mon_wake ==
    /\ mon_pc = "sleep"
    /\ current_hash' = get_file_hash(file)
    /\ mon_pc' = "check"
    /\ UNCHANGED <<file, lms_up, last_hash, last_attempt, synced, last_synced,
                   failed_for, retried, titles_sent, title_repeated,
                   syncs_of_content>>
    /\ UNCHANGED_others_mon

\* a poll that syncs whenever the file can be read, changed or not
mon_check_always ==
    /\ mon_pc = "check"
    /\ mon_pc' = IF current_hash # None THEN "sync" ELSE "sleep"
    /\ UNCHANGED <<file, lms_up, current_hash, last_hash, last_attempt, synced,
                   last_synced, failed_for, retried, titles_sent, title_repeated,
                   syncs_of_content>>
    /\ UNCHANGED_others_mon

\* if current_hash and current_hash != self.last_hash:
mon_check ==
    /\ mon_pc = "check"
    /\ mon_pc' = IF current_hash # None /\ current_hash # last_hash THEN "sync" ELSE "sleep"
    /\ UNCHANGED <<file, lms_up, current_hash, last_hash, last_attempt, synced,
                   last_synced, failed_for, retried, titles_sent, title_repeated,
                   syncs_of_content>>
    /\ UNCHANGED_others_mon

\* a polling sync that, like the initial one, moves last_hash whatever the result
mon_sync_unconditional ==
    /\ mon_pc = "sync"
    /\ Attempt("poll", sync_top_projects(file, lms_up))
    /\ last_hash' = current_hash
    /\ mon_pc' = "sleep"
    /\ UNCHANGED <<file, lms_up, current_hash>>
    /\ UNCHANGED_others_mon

\* if self.integration.sync_top_projects(...): self.last_hash = current_hash
mon_sync ==
    /\ mon_pc = "sync"
    /\ Attempt("poll", sync_top_projects(file, lms_up))
    /\ last_hash' = IF sync_top_projects(file, lms_up) THEN current_hash ELSE last_hash
    /\ mon_pc' = "sleep"
    /\ UNCHANGED <<file, lms_up, current_hash>>
    /\ UNCHANGED_others_mon

\* Ctrl+C
mon_interrupt ==
    /\ mon_pc # "stopped"
    /\ mon_pc' = "stopped"
    /\ UNCHANGED <<file, lms_up, current_hash, last_hash, last_attempt, synced,
                   last_synced, failed_for, retried, titles_sent, title_repeated,
                   syncs_of_content>>
    /\ UNCHANGED_others_mon

MonitorStep ==
    \/ mon_initial_hash
    \/ mon_initial_sync
    \/ mon_wake
    \/ mon_check
    \/ mon_sync

NextMonitor ==
    \/ WriteFile
    \/ DeleteFile
    \/ LmsChange
    \/ MonitorStep
    \/ mon_interrupt

(***************************************************************************)
(* Initial state: nothing has run, the database is empty, the JSON file    *)
(* has not been written.                                                   *)
(***************************************************************************)
InitWorkflow ==
    /\ wf_pc = "idle"
    /\ api_key = FALSE
    /\ state = EmptyDict
    /\ trace = << >>
    /\ llm_calls = << >>

InitDatabase ==
    /\ Raw_Artifacts = << >>
    /\ Knowledge_Graph = << >>
    /\ Agent_State = << >>
    /\ Project_Proposals = << >>
    /\ next_oid = 1
    /\ responses = << >>

InitArchitect ==
    /\ sa_pc = "start"
    /\ stream = << >>
    /\ sa_received = << >>
    /\ sa_finished = 0
    /\ recent_concepts = << >>
    /\ proposal = NoneDict
    /\ client_open = FALSE
    /\ agent_log = "none"

InitMonitor ==
    /\ mon_pc = "start"
    /\ file = Absent
    /\ lms_up = TRUE
    /\ current_hash = None
    /\ last_hash = None
    /\ last_attempt = NoneDict
    /\ synced = {}
    /\ last_synced = None
    /\ failed_for = {}
    /\ retried = {}
    /\ titles_sent = {}
    /\ title_repeated = FALSE
    /\ syncs_of_content = 0

InitLms ==
    /\ lms_pc = "idle"
    /\ lms_op = "none"
    /\ lms_arg = None
    /\ logged_in = FALSE
    /\ lms_log = << >>
    /\ lms_ret = Returned(None)
    /\ lms_frame = NoFrame
    /\ lms_calls = 0

InitSeed ==
    /\ seed_pc = "start"
    /\ seed_idx = 0
    /\ seed_trail = << >>
    /\ seeded = {}

InitMain ==
    /\ main_pc = "start"
    /\ main_ret = NoneDict

InitDecision ==
    /\ md_args = NoneDict
    /\ md_result = None
    /\ md_logged = {}

Init ==
    /\ InitWorkflow /\ InitDatabase /\ InitArchitect /\ InitMonitor /\ InitLms /\ InitSeed
    /\ InitDecision /\ InitMain

Next ==
    \/ NextWorkflow \/ NextIngest \/ NextArchitect \/ NextMonitor \/ NextLms \/ NextSeed
    \/ NextDecision \/ NextMain

Spec == Init /\ [][Next]_vars

\* each program on its own, the others not started
SpecWorkflow == Init /\ [][NextWorkflow]_vars

\* the graph runs a node as soon as its predecessor has returned
FairSpecWorkflow == SpecWorkflow /\ WF_vars(WorkflowStep)

SpecIngest == Init /\ [][NextIngest]_vars

SpecArchitect == Init /\ [][NextArchitect]_vars

SpecMonitor == Init /\ [][NextMonitor]_vars

SpecLms == Init /\ [][NextLms]_vars

SpecSeed == Init /\ [][NextSeed]_vars

SpecDecision == Init /\ [][NextDecision]_vars

SpecMain == Init /\ [][NextMain]_vars

SpecAnalyzer == Init /\ [][NextAnalyzer]_vars

\* the monitor is a running process: whichever step it is at, it takes it
FairSpecMonitor == SpecMonitor /\ WF_vars(MonitorStep)

(***************************************************************************)
(* Claims about the ranking workflow.                                      *)
(***************************************************************************)
IsPrefix(s, t) == Len(s) <= Len(t) /\ s = SubSeq(t, 1, Len(s))

StageSet == { Stages[i] : i \in DOMAIN Stages }

RunOver == wf_pc \in {"END", "raised"}

\* C1 as stated: every run executes coordinator, analyzer, ranker, saver in
\* this order, each exactly once and none skipped: the stages run so far are
\* a prefix of the order, and a run that is over has run all four and is at END.
C1_EveryRunRunsAllStages ==
    /\ IsPrefix(trace, Stages)
    /\ RunOver => (wf_pc = "END" /\ trace = Stages)

\* C1 as amended: the stages run so far are always a prefix of the order
\* coordinator, analyzer, ranker, saver, the node to run next is the successor
\* of the last one run, a run at END has run each of the four exactly once, and
\* a run in which a stage raised (the coordinator, when the API key is missing
\* or a project lacks a key it reads) stopped at that stage and ran none after it.
C1_StagesInOrder ==
    /\ IsPrefix(trace, Stages)
    /\ wf_pc \in StageSet => wf_pc = Stages[Len(trace) + 1]
    /\ wf_pc = "END" => trace = Stages
    /\ wf_pc = "raised" =>
          /\ trace = <<"coordinator">>
          /\ ~api_key \/ ~WellFormed(state["projects"])
    /\ wf_pc = "idle" => trace = << >>

C1_Witness ==
    /\ wf_pc = "END"
    /\ trace = <<"coordinator", "analyzer", "ranker", "saver">>
    /\ Len(state["projects"]) >= 1

\* C2: once a run has been started with FIREWORKS_API_KEY set and every
\* project carrying name, due_date and complexity, it reaches END with the
\* four stages run, whatever the two chat-model calls do.
C2_Terminates ==
    (wf_pc = "coordinator" /\ api_key /\ WellFormed(state["projects"]))
        ~> (wf_pc = "END" /\ trace = Stages)

C2_Witness ==
    /\ wf_pc = "END"
    /\ llm_calls = << <<"coordinator", "llm_error">>, <<"ranker", "llm_error">> >>
    /\ Len(state["projects"]) >= 1

\* C3: when the run is at the persistence stage or past it, the chat model
\* has been invoked exactly twice, first by the coordinator and then by the
\* ranker, whatever the outcome of either call and the number of projects;
\* the analyzer adds no call (one call when the ranker is next) and the
\* persistence stage adds none (still two at END).
C3_TwoLlmCalls ==
    /\ wf_pc = "ranker" =>
          (Len(llm_calls) = 1 /\ llm_calls[1][1] = "coordinator")
    /\ wf_pc \in {"saver", "END"} =>
          /\ Len(llm_calls) = 2
          /\ llm_calls[1][1] = "coordinator"
          /\ llm_calls[2][1] = "ranker"

C3_Witness ==
    /\ wf_pc = "END"
    /\ Len(llm_calls) = 2
    /\ llm_calls[1][2] = "parse_error"
    /\ llm_calls[2][2] = "llm_error"
    /\ Len(state["projects"]) >= 3

\* rec contains name, compared without regard to case
ContainsIgnoringCase(rec, name) ==
    \E k \in 0..(Len(rec) - Len(name)) :
        \A j \in 1..Len(name) : LowerChar(rec[k + j]) = LowerChar(name[j])

FocusNames(insights, name) ==
    /\ "recommended_focus" \in DOMAIN insights
    /\ \E i \in DOMAIN insights["recommended_focus"] :
          ContainsIgnoringCase(insights["recommended_focus"][i], name)

\* C4: every analyzed entry carries interest 75, difficulty 60, urgency 80,
\* and context 70 and final 70.0 when an entry of the recommended_focus of
\* llm_reasoning contains the project's name (case-insensitively), context 50
\* and final 67.0 otherwise (also when llm_reasoning is the error dict); the
\* context is never raised by more than 20.
C4_Scores ==
    wf_pc \in {"ranker", "saver", "END"} =>
        \A i \in DOMAIN state["analyzed_projects"] :
            LET e == state["analyzed_projects"][i]
                boosted == FocusNames(state["llm_reasoning"], e["project"]["name"])
            IN  /\ e["scores"]["interest"] = 75
                /\ e["scores"]["difficulty"] = 60
                /\ e["scores"]["urgency"] = 80
                /\ e["scores"]["context"] = IF boosted THEN 70 ELSE 50
                /\ e["scores"]["final"] = IF boosted THEN 7000 ELSE 6700

\* two entries of recommended_focus contain the name "a"; another project of
\* the same run is not named
C4_Witness ==
    /\ wf_pc = "ranker"
    /\ "recommended_focus" \in DOMAIN state["llm_reasoning"]
    /\ state["llm_reasoning"]["recommended_focus"] = << <<"a">>, <<"A", "x">> >>
    /\ \E i, j \in DOMAIN state["analyzed_projects"] :
          /\ state["analyzed_projects"][i]["project"]["name"] = <<"a">>
          /\ state["analyzed_projects"][i]["scores"]["final"] = 7000
          /\ state["analyzed_projects"][j]["scores"]["final"] = 6700

Strip(e) == [ k \in DOMAIN e \ {"rank"} |-> e[k] ]

Injective(f) == \A i, j \in DOMAIN f : f[i] = f[j] => i = j

\* C5: when the ranker has returned, ranked_results has min(3, n) entries
\* for the n analyzed projects, each a different entry of analyzed_projects,
\* in non-increasing order of priority_score, no entry left out scores
\* strictly higher than one taken, and the entry at position i has rank i.
\* The length, order and ranks are still so at END.
C5_Ranked ==
    wf_pc \in {"saver", "END"} =>
        LET r == state["ranked_results"]
            a == state["analyzed_projects"]
            m == Len(r)
        IN  /\ m = Min(3, Len(state["projects"]))
            /\ \A i \in 1..m : r[i]["rank"] = i
            /\ \A i \in 1..(m - 1) : r[i]["priority_score"] >= r[i + 1]["priority_score"]
            /\ wf_pc = "saver" =>
                  /\ Len(a) = Len(state["projects"])
                  /\ \E f \in [1..m -> 1..Len(a)] :
                        /\ Injective(f)
                        /\ \A i \in 1..m : Strip(r[i]) = Strip(a[f[i]])
                        /\ \A j \in 1..Len(a) :
                              (\A i \in 1..m : f[i] # j) =>
                                  \A i \in 1..m :
                                      a[j]["priority_score"] <= r[i]["priority_score"]

\* four projects, the only boosted one last in the input and first in the ranking
C5_Witness ==
    /\ wf_pc = "saver"
    /\ Len(state["analyzed_projects"]) = 4
    /\ state["analyzed_projects"][4]["priority_score"] = 7000
    /\ \A j \in 1..3 : state["analyzed_projects"][j]["priority_score"] = 6700
    /\ Len(state["ranked_results"]) = 3
    /\ state["ranked_results"][1]["project"] = state["analyzed_projects"][4]["project"]

(***************************************************************************)
(* Claims about POST /ingest.                                              *)
(***************************************************************************)
Successes == SelectSeq(responses, LAMBDA r : r.code = 200)

WithoutId(doc) == [ k \in DOMAIN doc \ {"_id"} |-> doc[k] ]

OtherCollectionsUntouched ==
    /\ Knowledge_Graph = << >>
    /\ Agent_State = << >>
    /\ Project_Proposals = << >>

\* C6 as stated: each request, whatever its body, inserts exactly one
\* document and is answered with status "success": there are as many
\* documents in Raw_Artifacts as requests, and every answer is a success.
C6_EveryRequestInserts ==
    /\ Len(Raw_Artifacts) = Len(responses)
    /\ \A i \in DOMAIN responses :
          responses[i].code = 200 /\ responses[i].status = "success"

\* C6 as amended: the k-th request answered "success" inserted the k-th
\* document of Raw_Artifacts, which is its body as given (plus the generated
\* _id when the body has none), and the answer carries that document's id;
\* a request that is not answered "success" (a body that is no JSON object,
\* an _id already present, the database unreachable) inserted nothing, so n
\* successes leave n documents; no other collection is written.
C6_SuccessInsertsOne ==
    /\ Len(Raw_Artifacts) = Len(Successes)
    /\ \A k \in DOMAIN Successes :
          /\ Successes[k].body.kind = "object"
          /\ Successes[k].status = "success"
          /\ Successes[k].id = Str(Raw_Artifacts[k]["_id"])
          /\ WithoutId(Raw_Artifacts[k]) = WithoutId(Successes[k].body.value)
          /\ "_id" \in DOMAIN Successes[k].body.value =>
                Raw_Artifacts[k] = Successes[k].body.value
    /\ OtherCollectionsUntouched

\* three requests: one stored under a generated id, one under its own _id,
\* and a repeat of the latter refused
C6_Witness ==
    /\ Len(responses) = 3
    /\ Len(Raw_Artifacts) = 2
    /\ Raw_Artifacts[1]["_id"] = ObjectId(1)
    /\ Raw_Artifacts[2]["_id"] = <<"json", 7>>
    /\ responses[3] = [body |-> [kind |-> "object",
                                 value |-> [_id |-> <<"json", 7>>, title |-> "notes"]],
                       code |-> 500]

(***************************************************************************)
(* Claims about the Synthesis Architect.                                   *)
(***************************************************************************)
SaHandling == sa_pc \in {"fetch", "log_detect", "generate", "log_found", "save", "log_none"}

\* C7: proposals are saved only by the loop body that reacts to an event, at
\* most one per body run to its end, so there are never more proposals than
\* events received; at most one event is being handled at a time (the events
\* received are the bodies finished, plus the one in progress), and the
\* events are taken in the order of the inserts that caused them.
C7_OneAtATime ==
    /\ Len(Project_Proposals) <= sa_finished
    /\ sa_finished <= Len(sa_received)
    /\ Len(sa_received) <= sa_finished + 1
    /\ SaHandling => Len(sa_received) = sa_finished + 1
    /\ sa_pc \in {"start", "watch"} => Len(sa_received) = sa_finished
    /\ \E k \in 0..Len(Knowledge_Graph) :
          LET events == sa_received \o stream
          IN  /\ k + Len(events) <= Len(Knowledge_Graph)
              /\ \A i \in 1..Len(events) : events[i] = Knowledge_Graph[k + i]["_id"]

\* the second event is being handled, the proposal for the first is stored
C7_Witness ==
    /\ sa_pc = "save"
    /\ Len(sa_received) = 2
    /\ sa_finished = 1
    /\ Len(Project_Proposals) = 1

(***************************************************************************)
(* Claims about the auto-sync monitor.                                     *)
(***************************************************************************)
\* a poll: the loop reads the hash, then decides
PollReads == mon_pc = "sleep" /\ mon_pc' = "check"

PollDecides == mon_pc = "check" /\ mon_pc' \in {"sync", "sleep"}

\* C8: the hash a poll reads is None exactly when the file is absent or
\* unreadable; the poll goes on to call sync_top_projects exactly when that
\* hash is not None and differs from last_hash; a poll that does not sync
\* leaves last_hash as it was, and in the loop sync_top_projects is called
\* only after such a poll.
C8_PollSyncsIffChanged ==
    [][ /\ PollReads =>
            /\ (current_hash' = None) <=> (file \in {Absent, Unreadable})
            /\ file \notin {Absent, Unreadable} => current_hash' = MD5(file)
            /\ last_hash' = last_hash
        /\ PollDecides =>
            /\ (mon_pc' = "sync") <=> (current_hash # None /\ current_hash # last_hash)
            /\ last_hash' = last_hash
            /\ last_attempt' = last_attempt
        /\ (mon_pc # "sync" /\ mon_pc' = "sync") => PollDecides
      ]_vars

\* a poll has found the file changed since the sync that set last_hash
C8_Witness ==
    /\ mon_pc = "sync"
    /\ last_hash # None
    /\ current_hash # None
    /\ current_hash # last_hash
    /\ last_attempt # NoneDict

\* C9: if from some point on the file keeps one valid content, the LMS
\* accepts every sync and the monitor keeps running, then the latest
\* successful sync eventually is one of that content.
C9_EventuallySynced ==
    \A c \in ValidContents :
        <>[](file = c /\ lms_up /\ mon_pc # "stopped") => <>(last_synced = c)

\* C10 as stated: the monitor never calls sync_top_projects again for a
\* content whose sync has returned False while the file is unchanged.
C10_NoRetry == retried = {}

\* C10 as amended: no retry follows a failed initial sync (last_hash was set
\* to that content's hash all the same), but after a sync of the polling loop
\* has returned False last_hash is unchanged and every later poll that reads
\* the same hash of the unchanged file calls sync_top_projects again.
C10_RetriesOnlyAfterPoll ==
    /\ [](retried \subseteq {"poll"})
    /\ [][ (PollDecides /\ <<"poll", current_hash>> \in failed_for) => mon_pc' = "sync" ]_vars
    /\ [][ (PollDecides /\ <<"initial", current_hash>> \in failed_for) => mon_pc' = "sleep" ]_vars

\* a failed polling sync has been followed by another attempt
C10_Witness ==
    /\ retried = {"poll"}
    /\ last_attempt # NoneDict
    /\ last_attempt.phase = "poll"

(***************************************************************************)
(* Claims about the LMS integration.                                       *)
(***************************************************************************)
LmsDone == lms_pc = "idle" /\ lms_calls > 0

\* the POST to /api/method/login was answered 200 with message 'Logged In'
LoginAccepted(x) ==
    /\ x.req = "POST"
    /\ x.resp.kind = "json"
    /\ x.resp.status = 200
    /\ "message" \in DOMAIN x.resp.json
    /\ x.resp.json["message"] = "Logged In"

CreationRequests == {"course", "chapter", "lesson"}

\* the file is JSON but lacks a key that sync_top_projects itself reads
LacksSyncKey(f) ==
    /\ JsonLoad(f).ok
    /\ LET data == JsonLoad(f).data
       IN  \/ \E k \in {"total_projects_analyzed", "timestamp", "model", "top_3_projects"} :
                k \notin DOMAIN data
           \/ /\ "top_3_projects" \in DOMAIN data
              /\ \E i \in DOMAIN data["top_3_projects"] :
                    \E k \in {"rank", "name"} : k \notin DOMAIN data["top_3_projects"][i]

\* C11: sync_top_projects never propagates an exception and returns a
\* boolean; for a file that does not exist it returns False and sends nothing
\* to the LMS; for a file that cannot be read or parsed, or that lacks a key
\* sync_top_projects reads, it returns False; no course, chapter or lesson
\* request is sent unless the login was accepted before, and it returns
\* False when the login was not accepted.
C11_SyncFailsClosed ==
    lms_op = "sync_top_projects" =>
        /\ ~lms_ret.raised
        /\ LmsDone => lms_ret.value \in BOOLEAN
        /\ lms_arg = Absent => /\ lms_log = << >>
                               /\ LmsDone => lms_ret.value = FALSE
        /\ (lms_arg # Absent /\ (~JsonLoad(lms_arg).ok \/ LacksSyncKey(lms_arg))) =>
              (LmsDone => lms_ret.value = FALSE)
        /\ \A i \in DOMAIN lms_log :
              lms_log[i].req \in CreationRequests =>
                  \E j \in 1..(i - 1) : LoginAccepted(lms_log[j])
        /\ (LmsDone /\ ~\E j \in DOMAIN lms_log : LoginAccepted(lms_log[j])) =>
              lms_ret.value = FALSE

\* a readable, complete file whose sync stopped at a refused login
C11_Witness ==
    /\ lms_op = "sync_top_projects"
    /\ LmsDone
    /\ lms_arg = "c1"
    /\ Len(lms_log) = 2
    /\ lms_log[2].req = "POST"
    /\ lms_log[2].resp.status = 401
    /\ lms_ret = Returned(FALSE)

\* C12: no two LMS Course requests issued by the integration of one
\* AutoSyncMonitor over its lifetime carry the same title.
C12_TitlesUnique == ~title_repeated

InLogin(pc) == pc \in {"login_get", "login_post"}

\* the step in which login() returns
LoginReturns == InLogin(lms_pc) /\ ~InLogin(lms_pc')

\* C13: login returns True exactly when the login POST was answered 200 with
\* a JSON body whose message is 'Logged In'; logged_in becomes True on that
\* path only, a failed login leaves it as it was, nothing resets it to False,
\* and a login that raises inside returns False to its caller.
C13_Login ==
    [][ /\ logged_in => logged_in'
        /\ logged_in' # logged_in => LoginReturns
        /\ LoginReturns =>
              LET accepted == LoginAccepted(lms_log'[Len(lms_log')])
              IN  /\ lms_frame'.login_ret = accepted
                  /\ logged_in' = (logged_in \/ accepted)
                  /\ ~lms_ret'.raised
                  /\ lms_op = "login" => lms_ret' = Returned(accepted)
      ]_vars

\* a login refused on an object that an earlier login had logged in
C13_Witness ==
    /\ lms_op = "login"
    /\ LmsDone
    /\ Len(lms_log) = 2
    /\ lms_log[2].resp.status = 200
    /\ lms_ret = Returned(FALSE)
    /\ logged_in

(***************************************************************************)
(* Claims about the Synthesis Architect's helpers and the seeding.         *)
(***************************************************************************)
SaGenerated == sa_pc \in {"log_found", "log_none"}

IsProposal(p) ==
    /\ p # NoneDict
    /\ {"title", "rationale", "difficulty", "first_step"} \subseteq DOMAIN p

\* C14: generate_proposal returns None exactly when the list of concepts is
\* empty, and for a non-empty list it returns a proposal: the parsed
\* response, or the fallback proposal with its fixed title and difficulty.
C14_ProposalUnlessEmpty ==
    SaGenerated =>
        /\ proposal = NoneDict <=> recent_concepts = << >>
        /\ recent_concepts # << >> => IsProposal(proposal)

\* C15: seed_demo_data inserts a concept into Knowledge_Graph exactly when
\* get_embedding gave a non-empty embedding for it; an error of the
\* embedding call gives the empty list; a concept without embedding is
\* skipped and the loop goes on, so a seeding that ends has handled all four
\* concepts in order; every document it put into Knowledge_Graph has a
\* non-empty embedding, and it put at most four.
C15_SeededHaveEmbedding ==
    /\ \A i \in DOMAIN Knowledge_Graph :
          Knowledge_Graph[i]["_id"] \in seeded =>
              /\ "embedding" \in DOMAIN Knowledge_Graph[i]
              /\ Knowledge_Graph[i]["embedding"] # << >>
    /\ \A id \in seeded : \E i \in DOMAIN Knowledge_Graph : Knowledge_Graph[i]["_id"] = id
    /\ Cardinality(seeded) <= 4
    /\ Cardinality(seeded) = Cardinality({ k \in DOMAIN seed_trail : seed_trail[k].inserted })
    /\ \A k \in DOMAIN seed_trail :
          /\ seed_trail[k].name = SeedConcepts[k].name
          /\ seed_trail[k].kind = "error" => seed_trail[k].embedding = << >>
          /\ seed_trail[k].inserted <=> seed_trail[k].embedding # << >>
    /\ seed_pc = "done" => Len(seed_trail) = 4

\* a seeding that ended after it skipped its first concept for an embedding
\* error and inserted its second
C15_Witness ==
    /\ seed_pc = "done"
    /\ seed_trail[1].kind = "error"
    /\ ~seed_trail[1].inserted
    /\ seed_trail[2].inserted
    /\ Cardinality(seeded) = 3

(***************************************************************************)
(* Claims about the scoring helpers and the stages of the workflow.        *)
(***************************************************************************)
\* C16: make_decision returns EXECUTE_NOW exactly for scores of 70 and more,
\* BREAK_DOWN exactly for scores from 50 up to but not including 70, DEFER
\* exactly for scores under 50, and the same decision whatever llm_insights
\* holds, potential_risks that name the project included.
C16_Thresholds ==
    md_args # NoneDict =>
        LET score == md_args.priority_score
        IN  /\ md_result \in {"EXECUTE_NOW", "BREAK_DOWN", "DEFER"}
            /\ md_result = "EXECUTE_NOW" <=> score >= 7000
            /\ md_result = "BREAK_DOWN" <=> (5000 <= score /\ score < 7000)
            /\ md_result = "DEFER" <=> score < 5000
            /\ \A other \in InsightPool :
                  make_decision(score, md_args.project, other) = md_result

\* a call for a project that a risk names, with the score on the upper threshold
C16_Witness ==
    /\ md_args # NoneDict
    /\ md_logged # {}
    /\ md_args.priority_score = 7000
    /\ md_result = "EXECUTE_NOW"

\* the coordinator's chain.invoke raised, in the model call or in the parser
CoordinatorFailed == Len(llm_calls) >= 1 /\ llm_calls[1][2] # "ok"

\* C17: when the coordinator's LLM call or the parsing of its output raises,
\* the coordinator stores llm_reasoning = {"error": message} and the run goes
\* on: no project gets the context boost, every analyzed project has final
\* score 67 and decision BREAK_DOWN, and ranked_results is the first
\* min(3, n) projects in input order, ranked 1, 2, 3.
C17_Degraded ==
    CoordinatorFailed =>
        /\ wf_pc # "raised"
        /\ DOMAIN state["llm_reasoning"] = {"error"}
        /\ \A i \in DOMAIN state["analyzed_projects"] :
              LET e == state["analyzed_projects"][i]
              IN  /\ e["scores"]["context"] = 50
                  /\ e["scores"]["final"] = 6700
                  /\ e["priority_score"] = 6700
                  /\ e["decision"] = "BREAK_DOWN"
        /\ wf_pc \in {"ranker", "saver"} =>
              /\ Len(state["analyzed_projects"]) = Len(state["projects"])
              /\ \A i \in DOMAIN state["projects"] :
                    state["analyzed_projects"][i]["project"] = state["projects"][i]
        /\ wf_pc \in {"saver", "END"} =>
              /\ Len(state["ranked_results"]) = Min(3, Len(state["projects"]))
              /\ \A i \in DOMAIN state["ranked_results"] :
                    /\ state["ranked_results"][i]["project"] = state["projects"][i]
                    /\ state["ranked_results"][i]["rank"] = i

\* a degraded run over four projects that has ended
C17_Witness ==
    /\ CoordinatorFailed
    /\ wf_pc = "END"
    /\ Len(state["projects"]) = 4
    /\ Len(state["ranked_results"]) = 3
    /\ state["projects"][1] # state["projects"][4]

\* C18: when FIREWORKS_API_KEY is not set, main returns None and no workflow
\* was built and no stage ran; when a stage raised, main returns None, never
\* the state of the failed run; what main returns otherwise is the final state
\* of a run that went through all four stages.
C18_MainReturnsNone ==
    /\ main_pc \in {"start", "build"} => (wf_pc = "idle" /\ trace = << >>)
    /\ main_pc = "returned" =>
          /\ ~api_key => /\ main_ret = NoneDict
                         /\ wf_pc = "idle"
                         /\ trace = << >>
                         /\ llm_calls = << >>
          /\ wf_pc = "raised" => main_ret = NoneDict
          /\ main_ret # NoneDict => /\ wf_pc = "END"
                                    /\ trace = Stages
                                    /\ main_ret = state

\* main has returned None after the coordinator raised on a project without
\* due_date, with the key set
C18_Witness ==
    /\ main_pc = "returned"
    /\ api_key
    /\ wf_pc = "raised"
    /\ trace = <<"coordinator">>
    /\ main_ret = NoneDict

\* the step in which the analyzer node returns
AnalyzerReturns == wf_pc = "analyzer" /\ wf_pc' # "analyzer"

\* C19: the analyzer appends exactly one entry per input project to
\* analyzed_projects, in input order, behind the entries already there; each
\* entry's priority_score is its scores.final and its decision is the
\* threshold decision for that score; no other field of the state changes.
C19_AnalyzerAppends ==
    [][ AnalyzerReturns =>
          LET old == state["analyzed_projects"]
              new == state'["analyzed_projects"]
              n == Len(state["projects"])
          IN  /\ Len(new) = Len(old) + n
              /\ SubSeq(new, 1, Len(old)) = old
              /\ \A i \in 1..n :
                    LET e == new[Len(old) + i]
                    IN  /\ e["project"] = state["projects"][i]
                        /\ e["priority_score"] = e["scores"]["final"]
                        /\ e["decision"] = IF e["priority_score"] >= 7000 THEN "EXECUTE_NOW"
                                           ELSE IF e["priority_score"] >= 5000 THEN "BREAK_DOWN"
                                           ELSE "DEFER"
              /\ DOMAIN state' = DOMAIN state
              /\ \A k \in DOMAIN state \ {"analyzed_projects"} : state'[k] = state[k]
      ]_vars

\* the analyzer has returned for three projects, one of them boosted, on a
\* state that already held an entry
C19_Witness ==
    /\ wf_pc = "ranker"
    /\ trace = <<"analyzer">>
    /\ Len(state["projects"]) = 3
    /\ Len(state["analyzed_projects"]) = 4
    /\ state["analyzed_projects"][1]["project"] = Proj(<<"z">>)
    /\ state["analyzed_projects"][2]["decision"] = "EXECUTE_NOW"
    /\ state["analyzed_projects"][3]["decision"] = "BREAK_DOWN"

\* an answer create_course can take a course from
UsableAnswer(resp) ==
    /\ resp.kind = "json"
    /\ resp.status \in {200, 201}
    /\ DataOf(resp) # NoneDict

\* the exchange before the i-th was req, was answered 200/201 with JSON, and
\* the name in its data is the one the i-th request was sent for
SentAfter(i, req) ==
    /\ i > 1
    /\ lms_log[i - 1].req = req
    /\ UsableAnswer(lms_log[i - 1].resp)
    /\ Get(DataOf(lms_log[i - 1].resp), "name", None) = lms_log[i].arg
    /\ lms_log[i].arg # None

CreateCourseDone == lms_op = "create_course" /\ LmsDone

\* C20 as stated: create_course returns None only when the course POST
\* itself fails or raises, so a course POST was sent whenever None comes back.
C20_NoneOnlyOnFailedPost ==
    (CreateCourseDone /\ lms_ret.value = NoneDict) =>
        /\ lms_log # << >>
        /\ lms_log[1].req = "course"
        /\ ~UsableAnswer(lms_log[1].resp)

\* C20 (amended): a Course Chapter request directly follows a LMS Course POST
\* answered 200/201 with that course's name, a Course Lesson request directly
\* follows a Course Chapter POST answered 200/201 with that chapter's name, and
\* what create_course returns is fixed by the course exchange alone: None when
\* no request was sent because the project lacks a key create_course reads,
\* when the POST raised, was answered another status, a body that is not JSON
\* or a null 'data'; the answered 'data' otherwise, whatever the chapter and
\* lesson requests did.
C20_DependencyOrder ==
    /\ \A i \in 1..Len(lms_log) :
        /\ lms_log[i].req = "chapter" => SentAfter(i, "course")
        /\ lms_log[i].req = "lesson" => SentAfter(i, "chapter")
    /\ CreateCourseDone =>
        /\ (lms_log = << >>) = ~(CourseKeys \subseteq DOMAIN lms_arg)
        /\ lms_log # << >> =>
            /\ lms_log[1].req = "course"
            /\ lms_ret = Returned(IF UsableAnswer(lms_log[1].resp)
                                  THEN DataOf(lms_log[1].resp)
                                  ELSE NoneDict)

\* create_course returned the created course although its lesson request
\* was refused
C20_Witness ==
    /\ CreateCourseDone
    /\ Len(lms_log) = 3
    /\ lms_log[1].resp.status = 201
    /\ lms_log[2].req = "chapter"
    /\ lms_log[3].req = "lesson"
    /\ lms_log[3].resp.status = 417
    /\ lms_ret = Returned([name |-> "course-1"])

SyncDone == lms_op = "sync_top_projects" /\ LmsDone

\* this sync_top_projects call has parsed its file and its login was accepted
SyncLoggedIn ==
    /\ lms_op = "sync_top_projects"
    /\ \E j \in DOMAIN lms_log : LoginAccepted(lms_log[j])

\* the entries of the file this call reads, none if the key is missing
SyncEntries == Get(JsonLoad(lms_arg).data, "top_3_projects", << >>)

\* the entries before the first one that lacks rank or name
Attemptable ==
    LET stop == { i \in DOMAIN SyncEntries : ~(EntryKeys \subseteq DOMAIN SyncEntries[i]) }
    IN  IF stop = {} THEN SyncEntries
        ELSE SubSeq(SyncEntries, 1, (CHOOSE i \in stop : \A j \in stop : i <= j) - 1)

\* C21 as stated: once the file is parsed and the login accepted,
\* create_course is called once for every entry of top_3_projects in file
\* order and sync_top_projects returns True.
C21_EveryEntryThenTrue ==
    (SyncDone /\ SyncLoggedIn /\ "top_3_projects" \in DOMAIN JsonLoad(lms_arg).data) =>
        /\ lms_frame.called = SyncEntries
        /\ lms_ret = Returned(TRUE)

\* C21 (amended): once the file is parsed and the login accepted,
\* create_course is called once, in file order, for every entry up to the
\* first one that lacks the rank or name the loop prints; whatever
\* create_course returns for an entry, the next one is attempted; the call
\* returns True when every entry was attempted, however many courses were
\* created, and False when top_3_projects is missing or an entry lacked rank
\* or name.
C21_AttemptsInOrder ==
    SyncLoggedIn =>
        /\ \E n \in 0..Len(Attemptable) : lms_frame.called = SubSeq(Attemptable, 1, n)
        /\ LmsDone =>
            /\ lms_frame.called = Attemptable
            /\ lms_frame.created <= Len(lms_frame.called)
            /\ lms_ret = Returned(/\ "top_3_projects" \in DOMAIN JsonLoad(lms_arg).data
                                  /\ Attemptable = SyncEntries)

\* the first course was refused, the second created, and the call returned True
C21_Witness ==
    /\ SyncDone
    /\ SyncLoggedIn
    /\ lms_arg = "c1"
    /\ Len(lms_frame.called) = 2
    /\ lms_frame.created = 1
    /\ lms_log[3].req = "course"
    /\ lms_log[3].resp.status = 417
    /\ lms_ret = Returned(TRUE)

FoundMessage == <<"Found a connection! Proposing a unified project.">>

\* C22: a failed fetch, log, generation or save does not stop the Synthesis
\* Architect: while the last line of its log is the error line of one of the
\* four helpers, main is still inside its watcher loop with the client open,
\* and when it is back at the stream with an event waiting it takes that event.
C22_HelperFailureKeepsLoop ==
    agent_log \in HelperErrors =>
        /\ SaInLoop
        /\ client_open
        /\ (sa_pc = "watch" /\ stream # << >>) => ENABLED sa_next_event

\* the second insert event was taken after the save for the first one failed
C22_Witness ==
    /\ sa_pc = "fetch"
    /\ Len(sa_received) = 2
    /\ sa_finished = 1
    /\ Project_Proposals = << >>
    /\ \E i \in DOMAIN Agent_State : Agent_State[i].message = FoundMessage

StopLines == {"watch_error", "stopping"}

\* C23: once the change stream has raised a database error, or on a keyboard
\* interrupt, the Synthesis Architect has stopped with the database client
\* closed, and from then on it stays stopped: it takes no further event,
\* writes nothing more to Agent_State or Project_Proposals, logs nothing and
\* does not reopen the client.
C23_StopsForGood ==
    [][ /\ agent_log' \in StopLines => sa_pc' = "stopped"
        /\ sa_pc' = "stopped" => ~client_open'
        /\ sa_pc = "stopped" =>
              /\ sa_pc' = "stopped"
              /\ UNCHANGED <<stream, sa_received, sa_finished, Agent_State,
                             Project_Proposals, client_open, agent_log>>
      ]_vars

\* the stream failed after one event; a concept inserted since then was never
\* delivered
C23_Witness ==
    /\ sa_pc = "stopped"
    /\ agent_log = "watch_error"
    /\ ~client_open
    /\ Len(sa_received) = 1
    /\ stream = << >>
    /\ Len(Knowledge_Graph) = 2

\* the Agent_State entries announcing a proposal
Announced == { i \in DOMAIN Agent_State : Agent_State[i].message = FoundMessage }

\* C24: the proposal is saved to Project_Proposals before the Agent_State
\* entry announcing it is written, so there are never more announcing entries
\* than stored proposals.
C24_SavedBeforeAnnounced == Cardinality(Announced) <= Len(Project_Proposals)

\* C25: last_hash is None or the hash of a file content for which
\* sync_top_projects has returned True.
C25_LastHashSynced ==
    \/ last_hash = None
    \/ \E c \in synced : get_file_hash(c) = last_hash

\* C26: the monitor never completes two successful syncs of the same file
\* content without the file having changed in between.
C26_OncePerContent == syncs_of_content <= 1

====
